---- MODULE Spec2Model ----
(***************************************************************************)
(* Safe-Drive-AI: the reward ledger (DriverWellnessNFT contract, the       *)
(* SafeDrivingToken contract as used by RealBlockchainService, and the     *)
(* BlockchainDashboard handlers), the session grouping of                  *)
(* UnifiedWellnessDashboard and the alert list of SafetyAlerts.            *)
(*                                                                         *)
(* Fixed-point convention: drowsiness / stress levels are carried in       *)
(* hundredths (a value v stands for v/100), times in milliseconds for the  *)
(* browser clock and in seconds for block.timestamp.                       *)
(***************************************************************************)
EXTENDS Integers, Sequences, FiniteSets, TLC

VARIABLES
    \* ---- RealBlockchainService configuration
    deployed,           \* CONTRACT_ADDRESSES / ABIs were found and the contracts built
    walletInit,         \* this.wallet was built from NEXT_PUBLIC_WALLET_PRIVATE_KEY
    \* ---- chain
    blockTimestamp,     \* block.timestamp
    driverLogs,         \* DriverWellnessNFT.driverLogs : address -> WellnessLog[]
    nftData,            \* DriverWellnessNFT.nftData, index = tokenId + 1
    totalAchievements,  \* DriverWellnessNFT.totalAchievements
    authorizedLoggers,  \* DriverWellnessNFT.authorizedLoggers (as a set)
    driverData,         \* SafeDrivingToken per-driver account
    \* ---- BlockchainDashboard
    metrics,            \* currentSafetyMetrics prop (with the derived safetyScore)
    sessionSeq,         \* number of metric bundles handed to the dashboard so far
    isLoading,
    pc,                 \* position of the running handler
    captured,           \* values the running handler closed over
    lastCall,           \* result object of the last service call
    rewards,            \* rewards state (getDriverRewards view)
    mintedSessions,     \* history: sessions for which a reward was minted
    \* ---- achievements (checkAchievementEligibility)
    logCount,           \* logs.length of getDriverLogs()
    totalEarned,        \* parseFloat(rewards.totalEarned) of getDriverRewards()
    mintedTypes,        \* history: achievement types mintAchievement has minted
    achievement,        \* achievement state of the dashboard
    \* ---- a handler of a BlockchainDashboard that has been unmounted since
    orphanPc,           \* its position
    orphanCaptured,     \* the values it closed over
    \* ---- a call of the service, its transaction in flight
    call,               \* the mutation of the service that has been called and has not returned
    txState,            \* what the call is waiting for
    \* ---- APIClient.fetchWithRetry
    retries,            \* retries argument of the fetchWithRetry call
    fetchIndex,         \* loop index i of fetchWithRetry
    fetchPc,            \* position of the call
    fetchCount,         \* history, fetch requests the call has issued
    responses,          \* history, what the requests of the call received
    fetchResult,        \* the response returned or the error thrown
    \* ---- SafetyTipsService
    tipsNow,            \* Date.now() of the safety tips, in milliseconds
    lastTipsUpdate,     \* lastTipsUpdate (-1 is null)
    currentTips,        \* currentTips
    groqPending,        \* requests to the Groq API that have not been answered
    requestTimes,       \* history, times of the requests sent since the last clearTips
    \* ---- DataManager
    localStorage,       \* window.localStorage, key -> stored text
    sessionStorage,     \* window.sessionStorage, key -> stored text
    lastSave,           \* history, the last operation of DataManager
    \* ---- DriverWellnessNFT transactions of other clients
    lastTx,             \* the last transaction a client sent to DriverWellnessNFT and whether it reverted
    addedLoggers,       \* addresses passed to addAuthorizedLogger by the owner
    \* ---- UnifiedWellnessDashboard.groupIntoSessions
    history, gIndex, gSessions, currentSession, lastTimestamp, gDone,
    \* ---- VideoMonitor
    isMonitoring,       \* isMonitoring state
    closedAfter,        \* history: lengths of the wellness history at which monitoring was stopped
    \* ---- SafetyAlerts
    data,               \* monitoring data prop
    alerts,             \* alerts state
    clock               \* Date.now()

ledgerVars == <<deployed, walletInit, blockTimestamp, driverLogs, nftData,
                totalAchievements, authorizedLoggers, driverData, metrics,
                sessionSeq, isLoading, pc, captured, lastCall, rewards,
                mintedSessions, logCount, totalEarned, mintedTypes, achievement,
                orphanPc, orphanCaptured,
                lastTx, addedLoggers,
                localStorage, sessionStorage, lastSave,
                tipsNow, lastTipsUpdate, currentTips, groqPending, requestTimes,
                retries, fetchIndex, fetchPc, fetchCount, responses, fetchResult,
                call, txState>>
orphanVars == <<orphanPc, orphanCaptured>>
txVars == <<lastTx, addedLoggers>>
storeVars == <<localStorage, sessionStorage, lastSave>>
tipsVars == <<tipsNow, lastTipsUpdate, currentTips, groqPending, requestTimes>>
fetchVars == <<retries, fetchIndex, fetchPc, fetchCount, responses, fetchResult>>
waitVars == <<call, txState>>
eligVars == <<logCount, totalEarned, mintedTypes, achievement>>
groupVars == <<history, gIndex, gSessions, currentSession, lastTimestamp, gDone,
               isMonitoring, closedAfter>>
alertVars == <<data, alerts, clock>>
vars == <<ledgerVars, groupVars, alertVars>>

-----------------------------------------------------------------------------
\* Bounds of the model
MaxTime == 1          \* block.timestamp runs over 0..MaxTime
MaxLogs == 3          \* wellness logs stored by the contract
MaxTokens == 2        \* achievement tokens minted
MaxSessions == 2      \* metric bundles handed to the dashboard

Min(a, b) == IF a < b THEN a ELSE b
Max(a, b) == IF a > b THEN a ELSE b

-----------------------------------------------------------------------------
\* Addresses
Deployer == "deployer"
Stranger == "stranger"
Addresses == {Deployer, Stranger}
\* this.driverAddress and the wallet's address: the deploy script registers
\* deployer.address as the driver and as the authorized updater.
DriverAddress == Deployer
WalletAddress == Deployer

\* Number of WellnessLog structs in storage
TotalLogs == Len(driverLogs[Deployer]) + Len(driverLogs[Stranger])

-----------------------------------------------------------------------------
\* Safety Scorer

\* Math.round for a non-negative quotient num/den (round half up).
RoundDiv(num, den) == (2 * num + den) \div (2 * den)

\* A variant of calculateSafetyScore that returns the rounded sum as it is
calculateSafetyScoreUnclamped(m) ==
    LET drowsinessScore == Max(0, 10000 - m.drowsinessLevel * 20)
        stressScore == Max(0, 10000 - m.stressLevel * 15)
        interventionPenalty == Min(30, m.interventionCount * 5)
        routeScore == m.routeCompliance
        overallScore == RoundDiv(drowsinessScore * 30 + stressScore * 25
                                 + routeScore * 100 * 25
                                 + Max(0, 100 - interventionPenalty) * 100 * 20,
                                 10000)
    IN  [drowsinessScore |-> drowsinessScore,
         stressScore |-> stressScore,
         interventionCount |-> m.interventionCount,
         routeCompliance |-> routeScore,
         overallScore |-> overallScore]

\* calculateSafetyScore: levels in hundredths, the scores it returns in hundredths
\* too, overallScore an integer.
calculateSafetyScore(m) ==
    LET drowsinessScore == Max(0, 10000 - m.drowsinessLevel * 20)
        stressScore == Max(0, 10000 - m.stressLevel * 15)
        interventionPenalty == Min(30, m.interventionCount * 5)
        routeScore == m.routeCompliance
        overallScore == RoundDiv(drowsinessScore * 30 + stressScore * 25
                                 + routeScore * 100 * 25
                                 + Max(0, 100 - interventionPenalty) * 100 * 20,
                                 10000)
    IN  [drowsinessScore |-> drowsinessScore,
         stressScore |-> stressScore,
         interventionCount |-> m.interventionCount,
         routeCompliance |-> routeScore,
         overallScore |-> Min(100, Max(0, overallScore))]

\* Metric bundles the pages hand to BlockchainDashboard (levels in hundredths).
NoMetrics == [kind |-> "none"]
MetricsInputs ==
    { [kind |-> "metrics", drowsinessLevel |-> 500, stressLevel |-> 100,
       interventionCount |-> 0, routeCompliance |-> 95, drivingDuration |-> 3600],
      [kind |-> "metrics", drowsinessLevel |-> 100, stressLevel |-> 0,
       interventionCount |-> 0, routeCompliance |-> 84, drivingDuration |-> 3600],
      [kind |-> "metrics", drowsinessLevel |-> 500, stressLevel |-> 0,
       interventionCount |-> 0, routeCompliance |-> 100, drivingDuration |-> 0] }

-----------------------------------------------------------------------------
\* DriverWellnessNFT contract

\* abi.encodePacked(driver, timestamp, drowsinessEvents, stressLevel, interventions,
\* routeCompliance, gpsCoordinates): an address and five uint256 have fixed widths
\* and the only dynamic value comes last, so the packed bytes determine the seven
\* values; the encoding is kept as the tuple of the values in packing order.
\* f holds the five data fields of a log.
encodePacked(driver, timestamp, f) ==
    <<driver, timestamp, f.drowsinessEvents, f.stressLevel, f.interventions,
      f.routeCompliance, f.gpsCoordinates>>

\* keccak256 under the collision-freeness assumption: equal digests iff equal input.
keccak256(bytes) == <<"keccak256", bytes>>

\* The WellnessLog struct recordWellnessLog builds from its arguments f.
NewLogHashWithoutDriver(driver, f) ==
    [timestamp |-> blockTimestamp,
     drowsinessEvents |-> f.drowsinessEvents,
     stressLevel |-> f.stressLevel,
     interventions |-> f.interventions,
     routeCompliance |-> f.routeCompliance,
     gpsCoordinates |-> f.gpsCoordinates,
     dataHash |-> keccak256(Tail(encodePacked(driver, blockTimestamp, f)))]

NewLog(driver, f) ==
    [timestamp |-> blockTimestamp,
     drowsinessEvents |-> f.drowsinessEvents,
     stressLevel |-> f.stressLevel,
     interventions |-> f.interventions,
     routeCompliance |-> f.routeCompliance,
     gpsCoordinates |-> f.gpsCoordinates,
     dataHash |-> keccak256(encodePacked(driver, blockTimestamp, f))]

\* A variant of the modifier that lets every address through
onlyAuthorizedLoggerAnyone(sender) == sender \in Addresses

\* modifier onlyAuthorizedLogger
onlyAuthorizedLogger(sender) == sender \in authorizedLoggers

\* The storage effect of recordWellnessLog: driverLogs[driver].push(newLog)
PushLogOverwrite(logs, driver, newLog) ==
    [logs EXCEPT ![driver] = IF @ = <<>> THEN <<newLog>>
                             ELSE [@ EXCEPT ![Len(@)] = newLog]]

PushLog(logs, driver, newLog) ==
    [logs EXCEPT ![driver] = Append(@, newLog)]

\* recordWellnessLog as executed by the chain (the transaction did not revert)
NFT_recordWellnessLog(driver, f) ==
    driverLogs' = PushLog(driverLogs, driver, NewLog(driver, f))

\* mintAchievement as executed by the chain: no check of earlier tokens of the
\* driver; tokenId = _tokenIdCounter.current() = number of tokens minted so far.
NFT_mintAchievement(driver, achievementType, score, drivingHours) ==
    /\ nftData' = Append(nftData,
                         [tokenId |-> Len(nftData),
                          owner |-> driver,
                          achievementType |-> achievementType,
                          mintTimestamp |-> blockTimestamp,
                          safetyScore |-> score,
                          drivingHours |-> drivingHours])
    /\ totalAchievements' = totalAchievements + 1

\* verifyLogIntegrity's recomputation and comparison for a stored struct
HashMatches(driver, log) ==
    keccak256(encodePacked(driver, log.timestamp, log)) = log.dataHash

\* verifyLogIntegrity(driver, logIndex), logIndex 0-based; "revert" when out of bounds
verifyLogIntegrity(driver, logIndex) ==
    IF ~(logIndex < Len(driverLogs[driver])) THEN "revert"
    ELSE HashMatches(driver, driverLogs[driver][logIndex + 1])

AchievementTypes == 0 .. 5

-----------------------------------------------------------------------------
\* SafeDrivingToken contract (its source is not part of the sources at hand; the
\* bodies below follow the design document, the signatures follow the ABI)

MinRewardScore == 70
BaseRate == 10
RewardCap == 100
SecondsPerHour == 3600

DurationFactor(drivingDuration) == 1 + drivingDuration \div SecondsPerHour

\* score/100 x base-rate x duration-factor, capped
RewardAmount(score, drivingDuration) ==
    Min(RewardCap, (score * BaseRate * DurationFactor(drivingDuration)) \div 100)

\* updateSafetyScore(driver, newScore, drivingDuration): mints by incrementing
\* totalEarned and currentBalance.  The ABI carries no session identifier.
Token_updateSafetyScore(driver, newScore, drivingDuration) ==
    driverData' = [driverData EXCEPT
        ![driver].totalEarned = @ + RewardAmount(newScore, drivingDuration),
        ![driver].currentBalance = @ + RewardAmount(newScore, drivingDuration)]

Token_redeemReverts(sender, amount) == amount > driverData[sender].currentBalance

\* redeemReward(amount, rewardType) by msg.sender
Token_redeemReward(sender, amount) ==
    driverData' = [driverData EXCEPT
        ![sender].currentBalance = @ - amount,
        ![sender].totalRedeemed = @ + amount]

-----------------------------------------------------------------------------
\* RealBlockchainService

MsgNotDeployed == "Contracts not deployed. Run: npm run deploy"
MsgNotInitialized == "Contracts deployed but not initialized. Check wallet configuration."
MsgScoreTooLow == "Safety score too low for rewards (minimum 70%)"
MsgNotAuthorized == "Not authorized to log"
MsgInsufficientBalance == "Insufficient balance"
MsgNetwork == "network error"

\* What the provider does with a submitted transaction, apart from the contract's
\* own require checks.
NetOutcomes == {"ok", "network_error"}

areContractsReady == deployed /\ walletInit

\* getDeploymentStatus().message when the contracts are not ready
DeploymentMessage == IF ~deployed THEN MsgNotDeployed ELSE MsgNotInitialized

\* Result objects. txAttempted records whether the call reached the contract method;
\* threw records whether the call ended with an exception instead of a value.
Success(op) == [op |-> op, success |-> TRUE, error |-> "", txAttempted |-> TRUE, threw |-> FALSE]
\* The values returned for a failure: by the readiness and score tests, and by the
\* catch clause for whatever the try block threw (error.message)
Failure(op, error, attempted) == [op |-> op, success |-> FALSE, error |-> error, txAttempted |-> attempted, threw |-> FALSE]
\* The call rejected with the error instead of returning
Thrown(op, error) == [op |-> op, success |-> FALSE, error |-> error, txAttempted |-> TRUE, threw |-> TRUE]
NoCall == [op |-> "none", success |-> FALSE, error |-> "", txAttempted |-> FALSE, threw |-> FALSE]

\* A variant of recordWellnessLog without the catch clause: what the contract call
\* or tx.wait() throws reaches the caller
svc_recordWellnessLogNoCatch(f) ==
    IF ~areContractsReady
    THEN /\ lastCall' = Failure("recordWellnessLog", DeploymentMessage, FALSE)
         /\ UNCHANGED driverLogs
    ELSE \E net \in NetOutcomes :
           IF net = "ok" /\ onlyAuthorizedLogger(WalletAddress)
           THEN /\ NFT_recordWellnessLog(DriverAddress, f)
                /\ lastCall' = Success("recordWellnessLog")
           ELSE /\ UNCHANGED driverLogs
                /\ lastCall' = Thrown("recordWellnessLog",
                                      IF net = "ok" THEN MsgNotAuthorized ELSE MsgNetwork)

\* recordWellnessLog(drowsinessEvents, stressLevel, interventions, routeCompliance,
\* gpsCoordinates), the five arguments in f
svc_recordWellnessLog(f) ==
    IF ~areContractsReady
    THEN /\ lastCall' = Failure("recordWellnessLog", DeploymentMessage, FALSE)
         /\ UNCHANGED driverLogs
    ELSE \E net \in NetOutcomes :
           IF net = "ok" /\ onlyAuthorizedLogger(WalletAddress)
           THEN /\ NFT_recordWellnessLog(DriverAddress, f)
                /\ lastCall' = Success("recordWellnessLog")
           ELSE /\ UNCHANGED driverLogs
                /\ lastCall' = Failure("recordWellnessLog",
                                       IF net = "ok" THEN MsgNotAuthorized ELSE MsgNetwork,
                                       TRUE)

\* the mint gate of distributeRewards
ScoreTooLowWrongThreshold(overallScore) == overallScore < 60

ScoreTooLow(overallScore) == overallScore < MinRewardScore

\* distributeRewards(safetyScore, drivingDuration)
svc_distributeRewards(score, drivingDuration) ==
    IF ~areContractsReady
    THEN /\ lastCall' = Failure("distributeRewards", DeploymentMessage, FALSE)
         /\ UNCHANGED driverData
    ELSE IF ScoreTooLow(score.overallScore)
    THEN /\ lastCall' = Failure("distributeRewards", MsgScoreTooLow, FALSE)
         /\ UNCHANGED driverData
    ELSE \E net \in NetOutcomes :
           IF net = "ok"
           THEN /\ Token_updateSafetyScore(DriverAddress, score.overallScore,
                                           drivingDuration)
                /\ lastCall' = Success("distributeRewards")
           ELSE /\ UNCHANGED driverData
                /\ lastCall' = Failure("distributeRewards", MsgNetwork, TRUE)

\* redeemRewards returning success as soon as the transaction is sent, without
\* waiting for the receipt
svc_redeemRewardsNoWait(amount) ==
    IF ~areContractsReady
    THEN /\ lastCall' = Failure("redeemRewards", DeploymentMessage, FALSE)
         /\ UNCHANGED driverData
    ELSE \E net \in NetOutcomes :
           IF net = "ok"
           THEN /\ IF Token_redeemReverts(WalletAddress, amount)
                   THEN UNCHANGED driverData
                   ELSE Token_redeemReward(WalletAddress, amount)
                /\ lastCall' = Success("redeemRewards")
           ELSE /\ UNCHANGED driverData
                /\ lastCall' = Failure("redeemRewards", MsgNetwork, TRUE)

\* redeemRewards(amount, rewardType): the wallet is msg.sender
svc_redeemRewards(amount) ==
    IF ~areContractsReady
    THEN /\ lastCall' = Failure("redeemRewards", DeploymentMessage, FALSE)
         /\ UNCHANGED driverData
    ELSE \E net \in NetOutcomes :
           IF net = "ok" /\ ~Token_redeemReverts(WalletAddress, amount)
           THEN /\ Token_redeemReward(WalletAddress, amount)
                /\ lastCall' = Success("redeemRewards")
           ELSE /\ UNCHANGED driverData
                /\ lastCall' = Failure("redeemRewards",
                                       IF net = "ok" THEN MsgInsufficientBalance
                                       ELSE MsgNetwork,
                                       TRUE)

\* mintAchievement(achievementType, safetyScore, drivingHours)
svc_mintAchievement(achievementType, score, drivingHours) ==
    IF ~areContractsReady
    THEN /\ lastCall' = Failure("mintAchievement", DeploymentMessage, FALSE)
         /\ UNCHANGED <<nftData, totalAchievements>>
    ELSE \E net \in NetOutcomes :
           IF net = "ok" /\ onlyAuthorizedLogger(WalletAddress)
           THEN /\ NFT_mintAchievement(DriverAddress, achievementType, score,
                                       drivingHours)
                /\ lastCall' = Success("mintAchievement")
           ELSE /\ UNCHANGED <<nftData, totalAchievements>>
                /\ lastCall' = Failure("mintAchievement",
                                       IF net = "ok" THEN MsgNotAuthorized ELSE MsgNetwork,
                                       TRUE)

ZeroRewards == [totalEarned |-> 0, totalRedeemed |-> 0, currentBalance |-> 0]

\* getDriverRewards(): the account, or the default zeros when the token contract is
\* not initialised or the read fails
getDriverRewards(net) ==
    IF deployed /\ net = "ok" THEN driverData[DriverAddress] ELSE ZeroRewards

-----------------------------------------------------------------------------
\* BlockchainDashboard

NoCapture == [kind |-> "none"]
MockGps == "37.7749,-122.4194"
RedeemInputs == {0, 5, 20}

\* The arguments handleRecordSession passes to recordWellnessLog:
\* Math.floor(level * 10) for the two levels (levels in hundredths here).
SessionLogFields(m) ==
    [drowsinessEvents |-> (m.drowsinessLevel * 10) \div 100,
     stressLevel |-> (m.stressLevel * 10) \div 100,
     interventions |-> m.interventionCount,
     routeCompliance |-> m.routeCompliance,
     gpsCoordinates |-> MockGps]

chainVars == <<blockTimestamp, driverLogs, nftData, totalAchievements,
               authorizedLoggers, driverData>>
configVars == <<deployed, walletInit>>

\* A page renders the dashboard with a new currentSafetyMetrics object; the effect
\* on [currentSafetyMetrics] stores calculateSafetyScore(currentSafetyMetrics).
NewMetrics(m) ==
    /\ sessionSeq < MaxSessions
    /\ sessionSeq' = sessionSeq + 1
    /\ metrics' = [kind |-> "metrics",
                   drowsinessLevel |-> m.drowsinessLevel,
                   stressLevel |-> m.stressLevel,
                   interventionCount |-> m.interventionCount,
                   routeCompliance |-> m.routeCompliance,
                   drivingDuration |-> m.drivingDuration,
                   seq |-> sessionSeq + 1,
                   safetyScore |-> calculateSafetyScore(m)]
    /\ UNCHANGED <<groupVars, alertVars, txVars, storeVars, tipsVars, fetchVars, waitVars, eligVars, orphanVars, configVars, chainVars, isLoading, pc, captured, lastCall,
                   rewards, mintedSessions>>

\* handleRecordSession up to its first await (the button is disabled by isLoading)
RecordClick ==
    /\ pc = "idle" /\ ~isLoading
    /\ metrics.kind = "metrics"
    /\ TotalLogs < MaxLogs
    /\ isLoading' = TRUE
    /\ pc' = "log"
    /\ captured' = metrics
    /\ UNCHANGED <<groupVars, alertVars, txVars, storeVars, tipsVars, fetchVars, waitVars, eligVars, orphanVars, configVars, chainVars, metrics, sessionSeq, lastCall, rewards,
                   mintedSessions>>

\* A variant of the handler that goes on to distributeRewards whatever
\* recordWellnessLog returned
StepRecordLogThenAlwaysReward ==
    /\ pc = "log"
    /\ svc_recordWellnessLog(SessionLogFields(captured))
    /\ pc' = "reward" /\ UNCHANGED <<isLoading, captured>>
    /\ UNCHANGED <<groupVars, alertVars, txVars, storeVars, tipsVars, fetchVars, waitVars, eligVars, orphanVars, configVars, blockTimestamp, nftData, totalAchievements,
                   authorizedLoggers, driverData, metrics, sessionSeq, rewards,
                   mintedSessions>>

\* await recordWellnessLog(...); on failure the handler alerts and ends
StepRecordLog ==
    /\ pc = "log"
    /\ svc_recordWellnessLog(SessionLogFields(captured))
    /\ IF lastCall'.success
       THEN pc' = "reward" /\ UNCHANGED <<isLoading, captured>>
       ELSE pc' = "idle" /\ isLoading' = FALSE /\ captured' = NoCapture
    /\ UNCHANGED <<groupVars, alertVars, txVars, storeVars, tipsVars, fetchVars, waitVars, eligVars, orphanVars, configVars, blockTimestamp, nftData, totalAchievements,
                   authorizedLoggers, driverData, metrics, sessionSeq, rewards,
                   mintedSessions>>

\* await distributeRewards(safetyScore, drivingDuration); then the reload
StepDistribute ==
    /\ pc = "reward"
    /\ svc_distributeRewards(captured.safetyScore, captured.drivingDuration)
    /\ mintedSessions' = IF lastCall'.success
                         THEN mintedSessions \cup {captured.seq}
                         ELSE mintedSessions
    /\ pc' = "load"
    /\ UNCHANGED <<groupVars, alertVars, txVars, storeVars, tipsVars, fetchVars, waitVars, eligVars, orphanVars, configVars, blockTimestamp, driverLogs, nftData,
                   totalAchievements, authorizedLoggers, metrics, sessionSeq,
                   isLoading, captured, rewards>>

\* loadBlockchainData (on mount, and awaited at the end of both handlers), then the
\* finally blocks: setIsLoading(false)
StepLoad ==
    /\ pc = "load"
    /\ \E net \in NetOutcomes : rewards' = getDriverRewards(net)
    /\ isLoading' = FALSE
    /\ pc' = "idle"
    /\ captured' = NoCapture
    /\ UNCHANGED <<groupVars, alertVars, txVars, storeVars, tipsVars, fetchVars, waitVars, eligVars, orphanVars, configVars, chainVars, metrics, sessionSeq, lastCall,
                   mintedSessions>>

\* handleRedeemRewards up to its first await; redeemAmount is what the user typed
RedeemClick(redeemAmount) ==
    /\ pc = "idle" /\ ~isLoading
    /\ IF redeemAmount <= 0
       THEN UNCHANGED <<isLoading, pc, captured>>
       ELSE /\ isLoading' = TRUE
            /\ pc' = "redeem"
            /\ captured' = [kind |-> "redeem", amount |-> redeemAmount]
    /\ UNCHANGED <<groupVars, alertVars, txVars, storeVars, tipsVars, fetchVars, waitVars, eligVars, orphanVars, configVars, chainVars, metrics, sessionSeq, lastCall, rewards,
                   mintedSessions>>

\* await redeemRewards(redeemAmount, selectedReward)
StepRedeem ==
    /\ pc = "redeem"
    /\ svc_redeemRewards(captured.amount)
    /\ IF lastCall'.success
       THEN pc' = "load" /\ UNCHANGED <<isLoading, captured>>
       ELSE pc' = "idle" /\ isLoading' = FALSE /\ captured' = NoCapture
    /\ UNCHANGED <<groupVars, alertVars, txVars, storeVars, tipsVars, fetchVars, waitVars, eligVars, orphanVars, configVars, blockTimestamp, driverLogs, nftData,
                   totalAchievements, authorizedLoggers, metrics, sessionSeq,
                   rewards, mintedSessions>>

\* A collaborator calls realBlockchainService.mintAchievement
CallMintAchievement(achievementType) ==
    /\ Len(nftData) < MaxTokens
    /\ svc_mintAchievement(achievementType, 90, 1)
    /\ UNCHANGED <<groupVars, alertVars, txVars, storeVars, tipsVars, fetchVars, waitVars, eligVars, orphanVars, configVars, blockTimestamp, driverLogs, authorizedLoggers,
                   driverData, metrics, sessionSeq, isLoading, pc, captured,
                   rewards, mintedSessions>>

-----------------------------------------------------------------------------
\* The chain, apart from the service's own transactions

\* Log arguments of transactions other clients send
LogInputs ==
    { [drowsinessEvents |-> 0, stressLevel |-> 1, interventions |-> 0,
       routeCompliance |-> 95, gpsCoordinates |-> MockGps],
      [drowsinessEvents |-> 1, stressLevel |-> 1, interventions |-> 2,
       routeCompliance |-> 80, gpsCoordinates |-> "0,0"] }

\* A new block
Tick ==
    /\ blockTimestamp < MaxTime
    /\ blockTimestamp' = blockTimestamp + 1
    /\ UNCHANGED <<groupVars, alertVars, txVars, storeVars, tipsVars, fetchVars, waitVars, eligVars, orphanVars, configVars, driverLogs, nftData, totalAchievements,
                   authorizedLoggers, driverData, metrics, sessionSeq, isLoading,
                   pc, captured, lastCall, rewards, mintedSessions>>

\* The record of a transaction: the function, msg.sender and whether it reverted
Tx(fn, sender, reverted) == [fn |-> fn, sender |-> sender, reverted |-> reverted]

\* recordWellnessLog sent by any address (it reverts unless the sender is authorized)
TxRecordWellnessLog(sender, driver, f) ==
    /\ onlyAuthorizedLogger(sender)
    /\ TotalLogs < MaxLogs
    /\ NFT_recordWellnessLog(driver, f)
    /\ UNCHANGED <<groupVars, alertVars, txVars, storeVars, tipsVars, fetchVars, waitVars, eligVars, orphanVars, configVars, blockTimestamp, nftData, totalAchievements,
                   authorizedLoggers, driverData, metrics, sessionSeq, isLoading,
                   pc, captured, lastCall, rewards, mintedSessions>>

\* recordWellnessLog sent by any address, with the transaction's outcome kept:
\* require(authorizedLoggers[msg.sender]) reverts the transaction, and a reverted
\* transaction changes no storage
SendRecordWellnessLog(sender, driver, f) ==
    /\ TotalLogs < MaxLogs
    /\ IF onlyAuthorizedLogger(sender)
       THEN /\ NFT_recordWellnessLog(driver, f)
            /\ lastTx' = Tx("recordWellnessLog", sender, FALSE)
       ELSE /\ UNCHANGED driverLogs
            /\ lastTx' = Tx("recordWellnessLog", sender, TRUE)
    /\ UNCHANGED <<groupVars, alertVars, storeVars, tipsVars, fetchVars, waitVars, eligVars, orphanVars, configVars, blockTimestamp, nftData, totalAchievements,
                   authorizedLoggers, driverData, metrics, sessionSeq, isLoading,
                   pc, captured, lastCall, rewards, mintedSessions, addedLoggers>>

\* mintAchievement sent by any address, under the same modifier
SendMintAchievement(sender, driver, achievementType) ==
    /\ Len(nftData) < MaxTokens
    /\ IF onlyAuthorizedLogger(sender)
       THEN /\ NFT_mintAchievement(driver, achievementType, 90, 1)
            /\ lastTx' = Tx("mintAchievement", sender, FALSE)
       ELSE /\ UNCHANGED <<nftData, totalAchievements>>
            /\ lastTx' = Tx("mintAchievement", sender, TRUE)
    /\ UNCHANGED <<groupVars, alertVars, storeVars, tipsVars, fetchVars, waitVars, eligVars, orphanVars, configVars, blockTimestamp, driverLogs,
                   authorizedLoggers, driverData, metrics, sessionSeq, isLoading,
                   pc, captured, lastCall, rewards, mintedSessions, addedLoggers>>

\* addAuthorizedLogger(logger), onlyOwner: the owner is the deployer
TxAddAuthorizedLogger(logger) ==
    /\ logger \notin authorizedLoggers
    /\ authorizedLoggers' = authorizedLoggers \cup {logger}
    /\ addedLoggers' = addedLoggers \cup {logger}
    /\ UNCHANGED <<groupVars, alertVars, storeVars, tipsVars, fetchVars, waitVars, eligVars, orphanVars, configVars, blockTimestamp, driverLogs, nftData,
                   totalAchievements, driverData, metrics, sessionSeq, isLoading,
                   pc, captured, lastCall, rewards, mintedSessions, lastTx>>

-----------------------------------------------------------------------------
\* The ledger after deployment (the constructor authorizes the deployer) and the
\* dashboard at mount, with loadBlockchainData under way.  The session grouping
\* and the alert list are at rest.
InitLedger ==
    /\ deployed \in BOOLEAN
    /\ walletInit \in BOOLEAN
    /\ blockTimestamp = 0
    /\ driverLogs = [a \in Addresses |-> <<>>]
    /\ nftData = <<>>
    /\ totalAchievements = 0
    /\ authorizedLoggers = {Deployer}
    /\ driverData = [a \in Addresses |-> ZeroRewards]
    /\ metrics = NoMetrics
    /\ sessionSeq = 0
    /\ isLoading = TRUE
    /\ pc = "load"
    /\ captured = NoCapture
    /\ lastCall = NoCall
    /\ rewards = ZeroRewards
    /\ mintedSessions = {}
    /\ logCount = 0 /\ totalEarned = 0 /\ mintedTypes = {} /\ achievement = [eligible |-> FALSE]
    /\ orphanPc = "idle" /\ orphanCaptured = [kind |-> "none"]
    /\ lastTx = [fn |-> "none"] /\ addedLoggers = {}
    /\ localStorage = [k \in {<<"recent", "Routes">>, <<"active", "Route">>, <<"wellness", "History">>, <<"user", "Preferences">>, <<"route", "Tracker", "Expanded">>} |-> [kind |-> "absent"]] /\ sessionStorage = localStorage /\ lastSave = [op |-> "none"]
    /\ tipsNow = 0 /\ lastTipsUpdate = -1 /\ currentTips = <<>> /\ groqPending = 0 /\ requestTimes = <<>>
    /\ retries = 0 /\ fetchIndex = 0 /\ fetchPc = "idle" /\ fetchCount = 0 /\ responses = <<>> /\ fetchResult = [kind |-> "none"]
    /\ call = [op |-> "none"] /\ txState = "none"
    /\ history = <<>> /\ gIndex = 0 /\ gSessions = <<>> /\ currentSession = <<>>
    /\ lastTimestamp = -1 /\ gDone = FALSE
    /\ isMonitoring = FALSE /\ closedAfter = {}
    /\ data = [drowsiness |-> 0, stress |-> 0, isActive |-> FALSE]
    /\ alerts = <<>> /\ clock = 0

\* The dashboard and the service: handlers, their awaited service calls
NextLedger ==
    \/ \E m \in MetricsInputs : NewMetrics(m)
    \/ RecordClick
    \/ StepRecordLog
    \/ StepDistribute
    \/ StepLoad
    \/ \E a \in RedeemInputs : RedeemClick(a)
    \/ StepRedeem

SpecLedger == InitLedger /\ [][NextLedger]_vars

\* The four mutations of the service: the dashboard's handlers, and a collaborator
\* minting achievements
NextService ==
    \/ \E m \in MetricsInputs : NewMetrics(m)
    \/ RecordClick
    \/ StepRecordLog
    \/ StepDistribute
    \/ StepLoad
    \/ \E a \in RedeemInputs : RedeemClick(a)
    \/ StepRedeem
    \/ CallMintAchievement(0)

SpecService == InitLedger /\ [][NextService]_vars

-----------------------------------------------------------------------------
\* A mutation of the service with its awaits: the method submits its transaction
\* (await contract.method(...)) and waits for the receipt (await tx.wait()); it
\* returns when the ledger has answered.  No method of the service sets a timer.

NoPendingCall == [op |-> "none"]
\* Calls of the four mutations
ServiceCalls ==
    {[op |-> "recordWellnessLog", f |-> SessionLogFields(m)] : m \in MetricsInputs}
    \cup {[op |-> "distributeRewards", score |-> calculateSafetyScore(m), drivingDuration |-> m.drivingDuration] : m \in MetricsInputs}
    \cup {[op |-> "redeemRewards", amount |-> a] : a \in RedeemInputs \ {0}}
    \cup {[op |-> "mintAchievement", achievementType |-> 0]}

\* The call goes as far as a transaction: the contracts are ready and, for
\* distributeRewards, the score passes the threshold
SendsTransaction(c) == areContractsReady /\ ~(c.op = "distributeRewards" /\ ScoreTooLow(c.score.overallScore))

\* The storage the call may still extend
CallBounded(c) ==
    /\ c.op = "recordWellnessLog" => TotalLogs < MaxLogs
    /\ c.op = "mintAchievement" => Len(nftData) < MaxTokens
    /\ c.op = "distributeRewards" => driverData[DriverAddress].totalEarned < MaxSessions * BaseRate

\* A caller invokes the method; it runs to its first await
InvokeMutation(c) ==
    /\ call = NoPendingCall
    /\ CallBounded(c)
    /\ call' = c
    /\ txState' = IF SendsTransaction(c) THEN "pending" ELSE "answered"
    /\ UNCHANGED <<groupVars, alertVars, txVars, storeVars, tipsVars, fetchVars, eligVars, orphanVars, configVars, chainVars, metrics, sessionSeq,
                   isLoading, pc, captured, lastCall, rewards, mintedSessions>>

\* The ledger answers the transaction: a receipt, a revert or an RPC error
LedgerAnswers ==
    /\ txState = "pending"
    /\ txState' = "answered"
    /\ UNCHANGED <<groupVars, alertVars, txVars, storeVars, tipsVars, fetchVars, eligVars, orphanVars, configVars, chainVars, metrics, sessionSeq,
                   isLoading, pc, captured, lastCall, rewards, mintedSessions, call>>

\* The method resumes after its awaits and returns its result
ReturnMutation ==
    /\ txState = "answered"
    /\ CASE call.op = "recordWellnessLog" -> svc_recordWellnessLog(call.f) /\ UNCHANGED <<driverData, nftData, totalAchievements>>
         [] call.op = "distributeRewards" -> svc_distributeRewards(call.score, call.drivingDuration) /\ UNCHANGED <<driverLogs, nftData, totalAchievements>>
         [] call.op = "redeemRewards" -> svc_redeemRewards(call.amount) /\ UNCHANGED <<driverLogs, nftData, totalAchievements>>
         [] call.op = "mintAchievement" -> svc_mintAchievement(call.achievementType, 90, 1) /\ UNCHANGED <<driverLogs, driverData>>
    /\ call' = NoPendingCall
    /\ txState' = "none"
    /\ UNCHANGED <<groupVars, alertVars, txVars, storeVars, tipsVars, fetchVars, eligVars, orphanVars, configVars, blockTimestamp, authorizedLoggers,
                   metrics, sessionSeq, isLoading, pc, captured, rewards, mintedSessions>>

NextWait ==
    \/ \E c \in ServiceCalls : InvokeMutation(c)
    \/ LedgerAnswers
    \/ ReturnMutation

\* The event loop resumes a method whose awaited promise has settled; nothing
\* obliges the ledger to answer.
SpecWait == InitLedger /\ [][NextWait]_vars /\ WF_vars(ReturnMutation)

-----------------------------------------------------------------------------
\* APIClient.fetchWithRetry: one step per fetch request and per backoff wait

MaxRetries == 3       \* largest retries argument (3 is the default)

NoResult == [kind |-> "none"]
\* What a fetch request ends with: a response (ok is status in 200..299) or a
\* rejection of the promise
Response(status) == [kind |-> "response", status |-> status, ok |-> status \in 200 .. 299]
NetworkFailure == [kind |-> "rejected"]
FetchOutcomes == {Response(200), Response(404), Response(500), NetworkFailure}

\* new APIError(`HTTP ${status}: ...`, status) and new APIError(`Network error: ...`)
APIError(message, status) == [kind |-> "APIError", message |-> message, status |-> status]
NoStatus == 0 - 1
\* A variant of the catch clause that rethrows what it caught as it is
ErrorOfUnwrapped(r) == IF r.kind = "response" THEN APIError("HTTP", r.status) ELSE r
\* What the last attempt throws: the APIError of the try block, or the rejection
\* wrapped by the catch clause
ErrorOf(r) == IF r.kind = "response" THEN APIError("HTTP", r.status) ELSE APIError("Network error", NoStatus)

\* the test before the throw inside the try block
ThrowsInTry(r, index, n) == index = n - 1 \/ r.status < 500

\* the test of the catch clause: rethrow only on the last attempt
ThrowsInCatch(index, n) == index = n - 1

\* fetchWithRetry(url, options, n) is called
CallFetchWithRetry(n) ==
    /\ fetchPc \in {"idle", "returned", "thrown"}
    /\ retries' = n /\ fetchIndex' = 0 /\ fetchPc' = "fetch"
    /\ fetchCount' = 0 /\ responses' = <<>> /\ fetchResult' = NoResult
    /\ UNCHANGED <<groupVars, alertVars, txVars, storeVars, tipsVars, waitVars, eligVars, orphanVars, configVars, chainVars, metrics, sessionSeq,
                   isLoading, pc, captured, lastCall, rewards, mintedSessions>>

\* One iteration of the loop: await fetch(...), the tests on the response, the catch
\* clause up to its wait
FetchAttempt(r) ==
    /\ fetchPc = "fetch" /\ fetchIndex < retries
    /\ fetchCount' = fetchCount + 1
    /\ responses' = Append(responses, r)
    /\ IF r.kind = "response" /\ r.ok
       THEN fetchPc' = "returned" /\ fetchResult' = r /\ UNCHANGED fetchIndex
       ELSE IF r.kind = "response" /\ ~ThrowsInTry(r, fetchIndex, retries)
       THEN fetchPc' = "fetch" /\ fetchIndex' = fetchIndex + 1 /\ UNCHANGED fetchResult
       ELSE IF ThrowsInCatch(fetchIndex, retries)
       THEN fetchPc' = "thrown" /\ fetchResult' = ErrorOf(r) /\ UNCHANGED fetchIndex
       ELSE fetchPc' = "backoff" /\ UNCHANGED <<fetchIndex, fetchResult>>
    /\ UNCHANGED <<groupVars, alertVars, txVars, storeVars, tipsVars, waitVars, eligVars, orphanVars, configVars, chainVars, metrics, sessionSeq,
                   isLoading, pc, captured, lastCall, rewards, mintedSessions, retries>>

\* The timer of the catch clause fires (2^fetchIndex seconds); the loop goes on
BackoffElapsed ==
    /\ fetchPc = "backoff"
    /\ fetchPc' = "fetch" /\ fetchIndex' = fetchIndex + 1
    /\ UNCHANGED <<groupVars, alertVars, txVars, storeVars, tipsVars, waitVars, eligVars, orphanVars, configVars, chainVars, metrics, sessionSeq,
                   isLoading, pc, captured, lastCall, rewards, mintedSessions, retries, fetchCount,
                   responses, fetchResult>>

\* The loop has ended: throw new APIError('Max retries exceeded')
FetchExhausted ==
    /\ fetchPc = "fetch" /\ fetchIndex >= retries
    /\ fetchPc' = "thrown" /\ fetchResult' = APIError("Max retries exceeded", NoStatus)
    /\ UNCHANGED <<groupVars, alertVars, txVars, storeVars, tipsVars, waitVars, eligVars, orphanVars, configVars, chainVars, metrics, sessionSeq,
                   isLoading, pc, captured, lastCall, rewards, mintedSessions, retries, fetchIndex, fetchCount,
                   responses>>

NextFetch ==
    \/ \E n \in 0 .. MaxRetries : CallFetchWithRetry(n)
    \/ \E r \in FetchOutcomes : FetchAttempt(r)
    \/ BackoffElapsed
    \/ FetchExhausted

\* Every fetch request settles, every timer fires, and the loop runs on
SpecFetch == InitLedger /\ [][NextFetch]_vars /\ WF_vars(\E r \in FetchOutcomes : FetchAttempt(r)) /\ WF_vars(BackoffElapsed) /\ WF_vars(FetchExhausted)

-----------------------------------------------------------------------------
\* SafetyTipsService.  VideoMonitor calls generateSafetyTips from
\* websocket.onmessage, once per processed frame; the isGeneratingTips the handler
\* tests is the value its closure took when the websocket effect ran, which is
\* false, so every message makes a call.

MaxTipsNow == 34000   \* Date.now() runs over 0 .. MaxTipsNow
MaxRequests == 3      \* requests to the Groq API that are followed

\* The sampling cadence and the interval of the tips
TimeSteps == {2000, 30000}
\* Tips made from the response to the request sent at time t
TipsOf(t) == <<[category |-> "general", requested |-> t]>>

\* lastTipsUpdate && Date.now() - lastTipsUpdate.getTime() < 30000
TipsAreFresh(last, now) == last # -1 /\ now - last < 30000

TimePasses(dt) ==
    /\ tipsNow + dt <= MaxTipsNow
    /\ tipsNow' = tipsNow + dt
    /\ UNCHANGED <<groupVars, alertVars, txVars, storeVars, fetchVars, waitVars, eligVars, orphanVars, configVars, chainVars, metrics,
                   sessionSeq, isLoading, pc, captured, lastCall, rewards, mintedSessions, lastTipsUpdate, currentTips,
                   groqPending, requestTimes>>

\* generateSafetyTips up to its await: the cached tips are returned, or a request
\* goes to the Groq API
generateSafetyTips ==
    /\ Len(requestTimes) < MaxRequests /\ groqPending < MaxRequests
    /\ IF TipsAreFresh(lastTipsUpdate, tipsNow)
       THEN UNCHANGED <<groqPending, requestTimes>>
       ELSE /\ groqPending' = groqPending + 1
            /\ requestTimes' = Append(requestTimes, tipsNow)
    /\ UNCHANGED <<groupVars, alertVars, txVars, storeVars, fetchVars, waitVars, eligVars, orphanVars, configVars, chainVars, metrics,
                   sessionSeq, isLoading, pc, captured, lastCall, rewards, mintedSessions, tipsNow, lastTipsUpdate,
                   currentTips>>

\* The Groq API has answered: the tips are stored with the time of the answer
GroqAnswers ==
    /\ groqPending > 0
    /\ groqPending' = groqPending - 1
    /\ currentTips' = TipsOf(tipsNow)
    /\ lastTipsUpdate' = tipsNow
    /\ UNCHANGED <<groupVars, alertVars, txVars, storeVars, fetchVars, waitVars, eligVars, orphanVars, configVars, chainVars, metrics,
                   sessionSeq, isLoading, pc, captured, lastCall, rewards, mintedSessions, tipsNow, requestTimes>>

\* The request has failed: the catch clause returns the fallback tips and stores
\* nothing
GroqFails ==
    /\ groqPending > 0
    /\ groqPending' = groqPending - 1
    /\ UNCHANGED <<groupVars, alertVars, txVars, storeVars, fetchVars, waitVars, eligVars, orphanVars, configVars, chainVars, metrics,
                   sessionSeq, isLoading, pc, captured, lastCall, rewards, mintedSessions, tipsNow, lastTipsUpdate,
                   currentTips, requestTimes>>

\* clearTips (VideoMonitor.toggleMonitoring when monitoring is switched on)
clearTips ==
    /\ currentTips' = <<>>
    /\ lastTipsUpdate' = -1
    /\ requestTimes' = <<>>
    /\ UNCHANGED <<groupVars, alertVars, txVars, storeVars, fetchVars, waitVars, eligVars, orphanVars, configVars, chainVars, metrics,
                   sessionSeq, isLoading, pc, captured, lastCall, rewards, mintedSessions, tipsNow, groqPending>>

NextTips ==
    \/ \E dt \in TimeSteps : TimePasses(dt)
    \/ generateSafetyTips
    \/ GroqAnswers
    \/ GroqFails
    \/ clearTips

SpecTips == InitLedger /\ [][NextTips]_vars

-----------------------------------------------------------------------------
\* DataManager over localStorage and sessionStorage.
\*
\* A key is the sequence of the words of its name ("recentRoutes" is
\* <<"recent", "Routes">>), so that startsWith is a test on a prefix.  A stored
\* text is the value JSON.parse gives back for it.

MaxStored == 2        \* items of a stored array

RecentRoutes == <<"recent", "Routes">>
ActiveRoute == <<"active", "Route">>
WellnessHistory == <<"wellness", "History">>
UserPreferences == <<"user", "Preferences">>
RouteTrackerExpanded == <<"route", "Tracker", "Expanded">>
StoreKeys == {RecentRoutes, ActiveRoute, WellnessHistory, UserPreferences, RouteTrackerExpanded}

\* key.startsWith(prefix)
StartsWith(key, prefix) == Len(key) >= Len(prefix) /\ SubSeq(key, 1, Len(prefix)) = prefix
\* The prefixes clearAllData removes: 'driverWellness', 'route', 'wellness'
ClearedPrefixes == {<<"driver", "Wellness">>, <<"route">>, <<"wellness">>}
ClearedBy(key) == \E prefix \in ClearedPrefixes : StartsWith(key, prefix)

\* Values: booleans, objects (lastUpdate is a Date, a string or missing), arrays, null
Absent == [kind |-> "absent"]
Null == [kind |-> "null"]
Bool(b) == [kind |-> "boolean", value |-> b]
Obj(id, coordinates, lastUpdate) == [kind |-> "object", id |-> id, coordinates |-> coordinates, lastUpdate |-> lastUpdate]
Arr(items) == [kind |-> "array", items |-> items]

Routes == {Obj("route1", TRUE, "missing"), Obj("route2", FALSE, "missing")}
WellnessSamples == {Obj("sample", FALSE, "Date")}
Preferences == {Obj("prefs1", FALSE, "missing"), Obj("prefs2", FALSE, "missing")}

\* JSON.parse(JSON.stringify(v)): a Date becomes its ISO string
JSONItem(v) == IF v.kind = "object" /\ v.lastUpdate = "Date" THEN [v EXCEPT !.lastUpdate = "string"] ELSE v
JSONRoundTrip(v) == IF v.kind = "array" THEN Arr([n \in 1 .. Len(v.items) |-> JSONItem(v.items[n])]) ELSE JSONItem(v)

\* getData(key, {persistent}): data ? JSON.parse(data) : null
getData(local, session, key, persistent) ==
    LET stored == IF persistent THEN local[key] ELSE session[key]
    IN  IF stored = Absent THEN Null ELSE stored

\* x || []
OrEmptyArray(x) == IF x = Null \/ x = Bool(FALSE) THEN Arr(<<>>) ELSE x
\* [data, ...existingData].slice(0, maxItems)
Prepend(value, existing, maxItems) == Arr(SubSeq(<<value>> \o existing.items, 1, Min(maxItems, Len(existing.items) + 1)))

\* The text saveData stores under the key
SavedText(local, session, key, value, persistent, maxItems) ==
    LET existingData == OrEmptyArray(getData(local, session, key, persistent))
    IN  JSONRoundTrip(IF existingData.kind = "array" THEN Prepend(value, existingData, maxItems) ELSE value)

\* The storages after saveData(key, data, {persistent, maxItems})
LocalAfterSave(local, session, key, value, persistent, maxItems) ==
    IF persistent THEN [local EXCEPT ![key] = SavedText(local, session, key, value, persistent, maxItems)] ELSE local
SessionAfterSave(local, session, key, value, persistent, maxItems) ==
    IF persistent THEN session ELSE [session EXCEPT ![key] = SavedText(local, session, key, value, persistent, maxItems)]

\* The stored array under the key can take one more item
RoomFor(key, persistent) ==
    LET existingData == OrEmptyArray(getData(localStorage, sessionStorage, key, persistent))
    IN  existingData.kind = "array" => Len(existingData.items) < MaxStored

Saved(key, value, persistent) == [op |-> "saveData", key |-> key, data |-> value, persistent |-> persistent]

\* saveRoute(route): recentRoutes, and activeRoute when the route has coordinates
saveRoute(route) ==
    /\ RoomFor(RecentRoutes, FALSE) /\ RoomFor(ActiveRoute, FALSE)
    /\ LET session1 == SessionAfterSave(localStorage, sessionStorage, RecentRoutes, route, FALSE, 5)
       IN  /\ sessionStorage' = IF route.coordinates
                                THEN SessionAfterSave(localStorage, session1, ActiveRoute, route, FALSE, 100)
                                ELSE session1
           /\ lastSave' = IF route.coordinates THEN Saved(ActiveRoute, route, FALSE) ELSE Saved(RecentRoutes, route, FALSE)
    /\ UNCHANGED localStorage
    /\ UNCHANGED <<groupVars, alertVars, txVars, tipsVars, fetchVars, waitVars, eligVars, orphanVars, configVars, chainVars,
                   metrics, sessionSeq, isLoading, pc, captured, lastCall, rewards, mintedSessions>>

\* saveWellnessData(data)
saveWellnessData(sample) ==
    /\ RoomFor(WellnessHistory, FALSE)
    /\ sessionStorage' = SessionAfterSave(localStorage, sessionStorage, WellnessHistory, sample, FALSE, 100)
    /\ lastSave' = Saved(WellnessHistory, sample, FALSE)
    /\ UNCHANGED localStorage
    /\ UNCHANGED <<groupVars, alertVars, txVars, tipsVars, fetchVars, waitVars, eligVars, orphanVars, configVars, chainVars,
                   metrics, sessionSeq, isLoading, pc, captured, lastCall, rewards, mintedSessions>>

\* savePreferences(preferences)
savePreferences(preferences) ==
    /\ RoomFor(UserPreferences, TRUE)
    /\ localStorage' = LocalAfterSave(localStorage, sessionStorage, UserPreferences, preferences, TRUE, 100)
    /\ lastSave' = Saved(UserPreferences, preferences, TRUE)
    /\ UNCHANGED sessionStorage
    /\ UNCHANGED <<groupVars, alertVars, txVars, tipsVars, fetchVars, waitVars, eligVars, orphanVars, configVars, chainVars,
                   metrics, sessionSeq, isLoading, pc, captured, lastCall, rewards, mintedSessions>>

\* LiveRouteTracker: saveData("routeTrackerExpanded", isExpanded, {persistent: true})
SaveExpanded(isExpanded) ==
    /\ RoomFor(RouteTrackerExpanded, TRUE)
    /\ localStorage' = LocalAfterSave(localStorage, sessionStorage, RouteTrackerExpanded, Bool(isExpanded), TRUE, 100)
    /\ lastSave' = Saved(RouteTrackerExpanded, Bool(isExpanded), TRUE)
    /\ UNCHANGED sessionStorage
    /\ UNCHANGED <<groupVars, alertVars, txVars, tipsVars, fetchVars, waitVars, eligVars, orphanVars, configVars, chainVars,
                   metrics, sessionSeq, isLoading, pc, captured, lastCall, rewards, mintedSessions>>

\* clearAllData
clearAllData ==
    /\ localStorage' = [k \in StoreKeys |-> IF ClearedBy(k) THEN Absent ELSE localStorage[k]]
    /\ sessionStorage' = [k \in StoreKeys |-> IF ClearedBy(k) THEN Absent ELSE sessionStorage[k]]
    /\ lastSave' = [op |-> "clearAllData"]
    /\ UNCHANGED <<groupVars, alertVars, txVars, tipsVars, fetchVars, waitVars, eligVars, orphanVars, configVars, chainVars,
                   metrics, sessionSeq, isLoading, pc, captured, lastCall, rewards, mintedSessions>>

NextStore ==
    \/ \E route \in Routes : saveRoute(route)
    \/ \E sample \in WellnessSamples : saveWellnessData(sample)
    \/ \E preferences \in Preferences : savePreferences(preferences)
    \/ \E isExpanded \in BOOLEAN : SaveExpanded(isExpanded)
    \/ clearAllData

SpecStore == InitLedger /\ [][NextStore]_vars

\* The scorer alone, under metric bundles of every kind: levels on the 0..1 scale
\* and on the 0..100 scale (in hundredths), intervention counts below and above
\* the cap of the penalty, route compliance inside and outside 0..100
ScorerInputs ==
    [kind : {"metrics"},
     drowsinessLevel : {0, 20, 100, 500, 2000},
     stressLevel : {0, 10, 700, 1000},
     interventionCount : {0, 6, 7},
     routeCompliance : {0 - 100, 95, 100, 120},
     drivingDuration : {3600}]

NextScorer == \E m \in ScorerInputs : NewMetrics(m)

SpecScorer == InitLedger /\ [][NextScorer]_vars

\* The DriverWellnessNFT contract under transactions of any client
NextNFT ==
    \/ Tick
    \/ \E s \in Addresses, d \in Addresses, f \in LogInputs : TxRecordWellnessLog(s, d, f)
    \/ TxAddAuthorizedLogger(Stranger)
    \/ CallMintAchievement(0)

SpecNFT == InitLedger /\ [][NextNFT]_vars

\* The contract's two writing functions called by any address, each transaction
\* kept with its sender and outcome
NextAccess ==
    \/ \E s \in Addresses, d \in Addresses, f \in LogInputs : SendRecordWellnessLog(s, d, f)
    \/ \E s \in Addresses, d \in Addresses : SendMintAchievement(s, d, 1)
    \/ TxAddAuthorizedLogger(Stranger)

SpecAccess == InitLedger /\ [][NextAccess]_vars

-----------------------------------------------------------------------------
\* Achievements: checkAchievementEligibility over the driver's log count and
\* total of earned tokens (whole tokens)

NotEligible == [eligible |-> FALSE]
Eligible(achievementType, description) == [eligible |-> TRUE, achievementType |-> achievementType, description |-> description]

\* checkAchievementEligibility: logs = getDriverLogs(), rewards = getDriverRewards()
checkAchievementEligibility(logsLength, earned) ==
    IF logsLength >= 10 /\ earned >= 5 THEN Eligible(0, "Complete 10 safe driving sessions")
    ELSE IF logsLength >= 50 /\ earned >= 25 THEN Eligible(1, "Complete 50 safe driving sessions")
    ELSE IF logsLength >= 100 /\ earned >= 100 THEN Eligible(2, "Complete 100 safe driving sessions")
    ELSE NotEligible

\* Log counts and totals around the thresholds of the three tiers
LogCountInputs == {9, 10, 49, 50, 99, 100}
EarnedInputs == {4, 5, 24, 25, 99, 100}
\* SAFE_DRIVER_BRONZE, SAFE_DRIVER_SILVER, SAFE_DRIVER_GOLD
TierTypes == {0, 1, 2}

\* Recorded sessions have brought the driver's log array to n entries
LogsGrow(n) ==
    /\ n > logCount
    /\ logCount' = n
    /\ UNCHANGED <<groupVars, alertVars, txVars, storeVars, tipsVars, fetchVars, waitVars, orphanVars, configVars, chainVars, metrics, sessionSeq, isLoading, pc,
                   captured, lastCall, rewards, mintedSessions, totalEarned, mintedTypes, achievement>>

\* Distributed rewards have brought totalRewardsEarned to r tokens
RewardsGrow(r) ==
    /\ r > totalEarned
    /\ totalEarned' = r
    /\ UNCHANGED <<groupVars, alertVars, txVars, storeVars, tipsVars, fetchVars, waitVars, orphanVars, configVars, chainVars, metrics, sessionSeq, isLoading, pc,
                   captured, lastCall, rewards, mintedSessions, logCount, mintedTypes, achievement>>

\* mintAchievement(achievementType, ..) has returned success: the service and the
\* contract accept any type for the driver, whatever was minted before
MintSucceeded(achievementType) ==
    /\ achievementType \notin mintedTypes
    /\ mintedTypes' = mintedTypes \cup {achievementType}
    /\ UNCHANGED <<groupVars, alertVars, txVars, storeVars, tipsVars, fetchVars, waitVars, orphanVars, configVars, chainVars, metrics, sessionSeq, isLoading, pc,
                   captured, lastCall, rewards, mintedSessions, logCount, totalEarned, achievement>>

\* loadBlockchainData: setAchievement(await checkAchievementEligibility())
CheckEligibility ==
    /\ achievement' = checkAchievementEligibility(logCount, totalEarned)
    /\ UNCHANGED <<groupVars, alertVars, txVars, storeVars, tipsVars, fetchVars, waitVars, orphanVars, configVars, chainVars, metrics, sessionSeq, isLoading, pc,
                   captured, lastCall, rewards, mintedSessions, logCount, totalEarned, mintedTypes>>

NextEligibility ==
    \/ \E n \in LogCountInputs : LogsGrow(n)
    \/ \E r \in EarnedInputs : RewardsGrow(r)
    \/ \E t \in TierTypes : MintSucceeded(t)
    \/ CheckEligibility

SpecEligibility == InitLedger /\ [][NextEligibility]_vars

-----------------------------------------------------------------------------
\* The dashboard under tab changes.  page.tsx renders BlockchainDashboard only
\* while its tab is the active one: leaving the tab unmounts the component and
\* coming back mounts a new one, whose state starts from the useState defaults and
\* whose mount effect runs loadBlockchainData.  The handler the old component was
\* running goes on with its awaits; what it sets on the old component is lost.
\* One such handler at a time is followed.
RemountDashboard ==
    /\ orphanPc = "idle"
    /\ orphanPc' = pc
    /\ orphanCaptured' = captured
    /\ isLoading' = TRUE
    /\ pc' = "load"
    /\ captured' = NoCapture
    /\ rewards' = ZeroRewards
    /\ achievement' = NotEligible
    /\ UNCHANGED <<groupVars, alertVars, txVars, storeVars, tipsVars, fetchVars, waitVars, configVars, chainVars, metrics, sessionSeq, lastCall,
                   mintedSessions, logCount, totalEarned, mintedTypes>>

\* The old handler's await recordWellnessLog(...)
OrphanRecordLog ==
    /\ orphanPc = "log"
    /\ svc_recordWellnessLog(SessionLogFields(orphanCaptured))
    /\ IF lastCall'.success
       THEN orphanPc' = "reward" /\ UNCHANGED orphanCaptured
       ELSE orphanPc' = "idle" /\ orphanCaptured' = NoCapture
    /\ UNCHANGED <<groupVars, alertVars, txVars, storeVars, tipsVars, fetchVars, waitVars, eligVars, configVars, blockTimestamp, nftData, totalAchievements,
                   authorizedLoggers, driverData, metrics, sessionSeq, isLoading, pc, captured,
                   rewards, mintedSessions>>

\* The old handler's await distributeRewards(...)
OrphanDistribute ==
    /\ orphanPc = "reward"
    /\ svc_distributeRewards(orphanCaptured.safetyScore, orphanCaptured.drivingDuration)
    /\ mintedSessions' = IF lastCall'.success
                         THEN mintedSessions \cup {orphanCaptured.seq}
                         ELSE mintedSessions
    /\ orphanPc' = "load"
    /\ UNCHANGED <<groupVars, alertVars, txVars, storeVars, tipsVars, fetchVars, waitVars, eligVars, configVars, blockTimestamp, driverLogs, nftData,
                   totalAchievements, authorizedLoggers, metrics, sessionSeq, isLoading, pc,
                   captured, rewards, orphanCaptured>>

\* The old handler's await redeemRewards(...)
OrphanRedeem ==
    /\ orphanPc = "redeem"
    /\ svc_redeemRewards(orphanCaptured.amount)
    /\ IF lastCall'.success
       THEN orphanPc' = "load" /\ UNCHANGED orphanCaptured
       ELSE orphanPc' = "idle" /\ orphanCaptured' = NoCapture
    /\ UNCHANGED <<groupVars, alertVars, txVars, storeVars, tipsVars, fetchVars, waitVars, eligVars, configVars, blockTimestamp, driverLogs, nftData,
                   totalAchievements, authorizedLoggers, metrics, sessionSeq, isLoading, pc,
                   captured, rewards, mintedSessions>>

\* The old handler's loadBlockchainData and finally block: the set-state calls go
\* to the unmounted component
OrphanLoad ==
    /\ orphanPc = "load"
    /\ orphanPc' = "idle"
    /\ orphanCaptured' = NoCapture
    /\ UNCHANGED <<groupVars, alertVars, txVars, storeVars, tipsVars, fetchVars, waitVars, eligVars, configVars, chainVars, metrics, sessionSeq, isLoading,
                   pc, captured, lastCall, rewards, mintedSessions>>

NextHome ==
    \/ \E m \in MetricsInputs : NewMetrics(m)
    \/ RecordClick
    \/ StepRecordLog
    \/ StepDistribute
    \/ StepLoad
    \/ \E a \in RedeemInputs : RedeemClick(a)
    \/ StepRedeem
    \/ RemountDashboard
    \/ OrphanRecordLog
    \/ OrphanDistribute
    \/ OrphanRedeem
    \/ OrphanLoad

SpecHome == InitLedger /\ [][NextHome]_vars

-----------------------------------------------------------------------------
\* UnifiedWellnessDashboard: groupIntoSessions / createSessionData
\*
\* A history item is [timestamp, drowsiness, stress]: the timestamp in
\* milliseconds, the levels in hundredths (VideoMonitor stores the 0..1 scores of
\* the monitoring data).  The forEach loop is taken one item per step.

MaxHistory == 3       \* items of the wellness history

StartTime == 1000
\* 2 s is the sampling cadence; 5 min is the value the gap is compared with; 6 min
\* lies beyond it.
GapInputs == {2000, 5 * 60 * 1000, 6 * 60 * 1000}
DrowsinessHistoryInputs == {20, 75}
StressHistoryInputs == {10, 60}

RECURSIVE SumSeq(_)
SumSeq(s) == IF s = <<>> THEN 0 ELSE Head(s) + SumSeq(Tail(s))

\* The ordered history with the given gaps between consecutive items
HistoryOf(gaps, ds, ss) == [i \in 1 .. Len(ds) |-> [timestamp |-> StartTime + SumSeq(SubSeq(gaps, 1, i - 1)), drowsiness |-> ds[i], stress |-> ss[i]]]

HistoriesOfLen(n) == {HistoryOf(g, d, s) : g \in [1 .. n - 1 -> GapInputs], d \in [1 .. n -> DrowsinessHistoryInputs], s \in [1 .. n -> StressHistoryInputs]}
Histories == UNION {HistoriesOfLen(n) : n \in 0 .. MaxHistory}

Reverse(s) == [i \in 1 .. Len(s) |-> s[Len(s) + 1 - i]]

\* sessionItems.reduce((sum, item) => sum + (item.<field> || 0), 0), in hundredths
SumDrowsiness(sessionItems) == SumSeq([i \in 1 .. Len(sessionItems) |-> sessionItems[i].drowsiness])
SumStress(sessionItems) == SumSeq([i \in 1 .. Len(sessionItems) |-> sessionItems[i].stress])

\* Math.max(0, 100 - (avgDrowsiness * 30 + avgStress * 25)) as the fraction
\* SafetyNum / (100 * length), the averages being sum / (100 * length)
SafetyNum(sessionItems) == Max(0, 10000 * Len(sessionItems) - (30 * SumDrowsiness(sessionItems) + 25 * SumStress(sessionItems)))

\* createSessionData.  The reported values are whole numbers (Math.round);
\* sessionItems is a history field: the items the session was built from.
createSessionData(sessionItems) ==
    [sessionId |-> sessionItems[1].timestamp,
     startTime |-> sessionItems[1].timestamp,
     endTime |-> sessionItems[Len(sessionItems)].timestamp,
     duration |-> RoundDiv(sessionItems[Len(sessionItems)].timestamp - sessionItems[1].timestamp, 60000),
     avgDrowsiness |-> RoundDiv(SumDrowsiness(sessionItems), 100 * Len(sessionItems)),
     avgStress |-> RoundDiv(SumStress(sessionItems), 100 * Len(sessionItems)),
     safetyScore |-> RoundDiv(SafetyNum(sessionItems), 100 * Len(sessionItems)),
     dataPoints |-> Len(sessionItems),
     sessionItems |-> sessionItems]

\* WellnessMetrics.calculateOverallScore(drowsiness, stress), levels in hundredths:
\* Math.round((1 - drowsiness) * 100 * 0.6 + (1 - stress) * 100 * 0.4)
calculateOverallScore(drowsiness, stress) == RoundDiv((100 - drowsiness) * 60 + (100 - stress) * 40, 100)

\* The value the gap between two items is compared with
SessionGapMs == 5 * 60 * 1000

\* A variant of the gap test that also splits at a gap of exactly five minutes
NewSessionGapInclusive(timestamp, last) == last # -1 /\ timestamp - last >= SessionGapMs

\* lastTimestamp && timestamp.getTime() - lastTimestamp.getTime() > 5 * 60 * 1000
\* (lastTimestamp = -1 stands for null)
NewSessionGap(timestamp, last) == last # -1 /\ timestamp - last > SessionGapMs

\* One iteration of history.forEach
GroupStep ==
    /\ ~gDone
    /\ gIndex < Len(history)
    /\ LET item == history[gIndex + 1]
           split == NewSessionGap(item.timestamp, lastTimestamp) /\ Len(currentSession) > 0
       IN /\ gSessions' = IF split THEN Append(gSessions, createSessionData(currentSession)) ELSE gSessions
          /\ currentSession' = IF split THEN <<item>> ELSE Append(currentSession, item)
          /\ lastTimestamp' = item.timestamp
    /\ gIndex' = gIndex + 1
    /\ UNCHANGED <<ledgerVars, alertVars, history, gDone, isMonitoring, closedAfter>>

\* After the loop: add the last session, return sessions.reverse()
GroupFinish ==
    /\ ~gDone
    /\ gIndex = Len(history)
    /\ gSessions' = Reverse(IF Len(currentSession) > 0 THEN Append(gSessions, createSessionData(currentSession)) ELSE gSessions)
    /\ gDone' = TRUE
    /\ UNCHANGED <<ledgerVars, alertVars, history, gIndex, currentSession, lastTimestamp,
                   isMonitoring, closedAfter>>

InitGroup ==
    /\ deployed = TRUE
    /\ walletInit = TRUE
    /\ blockTimestamp = 0
    /\ driverLogs = [a \in Addresses |-> <<>>]
    /\ nftData = <<>>
    /\ totalAchievements = 0
    /\ authorizedLoggers = {Deployer}
    /\ driverData = [a \in Addresses |-> ZeroRewards]
    /\ metrics = NoMetrics
    /\ sessionSeq = 0
    /\ isLoading = TRUE
    /\ pc = "load"
    /\ captured = NoCapture
    /\ lastCall = NoCall
    /\ rewards = ZeroRewards
    /\ mintedSessions = {}
    /\ logCount = 0 /\ totalEarned = 0 /\ mintedTypes = {} /\ achievement = [eligible |-> FALSE]
    /\ orphanPc = "idle" /\ orphanCaptured = [kind |-> "none"]
    /\ lastTx = [fn |-> "none"] /\ addedLoggers = {}
    /\ localStorage = [k \in {<<"recent", "Routes">>, <<"active", "Route">>, <<"wellness", "History">>, <<"user", "Preferences">>, <<"route", "Tracker", "Expanded">>} |-> [kind |-> "absent"]] /\ sessionStorage = localStorage /\ lastSave = [op |-> "none"]
    /\ tipsNow = 0 /\ lastTipsUpdate = -1 /\ currentTips = <<>> /\ groqPending = 0 /\ requestTimes = <<>>
    /\ retries = 0 /\ fetchIndex = 0 /\ fetchPc = "idle" /\ fetchCount = 0 /\ responses = <<>> /\ fetchResult = [kind |-> "none"]
    /\ call = [op |-> "none"] /\ txState = "none"
    /\ history \in Histories
    /\ gIndex = 0 /\ gSessions = <<>> /\ currentSession = <<>>
    /\ lastTimestamp = -1 /\ gDone = FALSE
    /\ isMonitoring = FALSE /\ closedAfter = {}
    /\ data = [drowsiness |-> 0, stress |-> 0, isActive |-> FALSE]
    /\ alerts = <<>> /\ clock = 0

NextGroup ==
    \/ GroupStep
    \/ GroupFinish

SpecGroup == InitGroup /\ [][NextGroup]_vars

\* VideoMonitor and the wellness history: samples are stored while monitoring is
\* on, monitoring is switched on and off, and the stored history is grouped.

\* Gaps and levels of the stored samples: the sampling cadence and a gap beyond
\* five minutes
MonitorGaps == {2000, 6 * 60 * 1000}
MonitorLevels == {<<20, 10>>, <<75, 60>>}

\* websocket.onmessage with status "processed": onDataUpdate(monitoringData) and
\* dataManager.saveWellnessData({...monitoringData, timestamp}), gap milliseconds
\* after the last stored sample
onmessage(gap, drowsiness, stress) ==
    /\ isMonitoring
    /\ Len(history) < MaxHistory
    /\ gIndex = 0 /\ ~gDone
    /\ history' = Append(history, [timestamp |-> IF history = <<>> THEN StartTime ELSE history[Len(history)].timestamp + gap,
                                   drowsiness |-> drowsiness, stress |-> stress])
    /\ data' = [drowsiness |-> drowsiness, stress |-> stress, isActive |-> TRUE]
    /\ UNCHANGED <<ledgerVars, alerts, clock, gIndex, gSessions, currentSession, lastTimestamp, gDone,
                   isMonitoring, closedAfter>>

\* toggleMonitoring: switching on resets the monitoring data; switching off
\* closes the websocket and stores nothing
toggleMonitoring ==
    /\ gIndex = 0 /\ ~gDone
    /\ isMonitoring' = ~isMonitoring
    /\ data' = IF ~isMonitoring THEN [drowsiness |-> 0, stress |-> 0, isActive |-> FALSE] ELSE data
    /\ closedAfter' = IF isMonitoring /\ Len(history) > 0 THEN closedAfter \cup {Len(history)} ELSE closedAfter
    /\ UNCHANGED <<ledgerVars, alerts, clock, history, gIndex, gSessions, currentSession, lastTimestamp, gDone>>

\* The page shows another tab while monitoring runs: renderContent unmounts
\* VideoMonitor, the cleanup of its effect closes the websocket, and the
\* monitoring data the page holds is left as it is
LeaveMonitorView ==
    /\ gIndex = 0 /\ ~gDone
    /\ isMonitoring
    /\ isMonitoring' = FALSE
    /\ closedAfter' = IF Len(history) > 0 THEN closedAfter \cup {Len(history)} ELSE closedAfter
    /\ UNCHANGED <<ledgerVars, alerts, clock, data, history, gIndex, gSessions, currentSession, lastTimestamp, gDone>>

NextMonitor ==
    \/ \E gap \in MonitorGaps, l \in MonitorLevels : onmessage(gap, l[1], l[2])
    \/ toggleMonitoring
    \/ LeaveMonitorView
    \/ GroupStep
    \/ GroupFinish

SpecMonitor == InitLedger /\ [][NextMonitor]_vars


-----------------------------------------------------------------------------
\* SafetyAlerts: the alert list
\*
\* The component is taken with its data prop as input: the effect on [data] runs
\* once for every monitoring data object handed to it.  Levels are in hundredths.
\* Date.now() advances between two runs of the effect (monitoring data arrives
\* at a cadence of one object per two seconds).

MaxClock == 3         \* monitoring data objects handed to SafetyAlerts

\* Values at, below and above each comparison of the effect
DrowsinessInputs == {20, 35, 50, 70, 75}
StressInputs == {10, 20, 45, 60, 80, 85}
AlertTypes == {"drowsiness", "stress"}

\* A variant of the drowsiness chain that includes the compared values
drowsinessSeverityInclusive(d) == IF d >= 70 THEN "critical" ELSE IF d >= 50 THEN "high" ELSE IF d >= 35 THEN "medium" ELSE "none"

\* The if / else-if chain on data.drowsiness ("none": no branch taken)
drowsinessSeverity(d) == IF d > 70 THEN "critical" ELSE IF d > 50 THEN "high" ELSE IF d > 35 THEN "medium" ELSE "none"

\* The if / else-if chain on data.stress
stressSeverity(s) == IF s > 80 THEN "critical" ELSE IF s > 60 THEN "high" ELSE IF s > 45 THEN "medium" ELSE "none"

AlertMessage(type, severity) ==
    IF type = "drowsiness"
    THEN CASE severity = "critical" -> "Critical drowsiness detected! Pull over immediately."
           [] severity = "high" -> "High drowsiness level detected. Consider taking a break."
           [] OTHER -> "Moderate drowsiness detected. Stay alert."
    ELSE CASE severity = "critical" -> "Extreme stress levels detected. Take immediate action."
           [] severity = "high" -> "High stress levels detected. Practice stress management."
           [] OTHER -> "Moderate stress detected. Take it easy."

\* The alert object pushed by a branch; the id `${type}-${Date.now()}` as a pair
NewAlert(type, severity, now) == [id |-> <<type, now>>, type |-> type, severity |-> severity, message |-> AlertMessage(type, severity), timestamp |-> now, acknowledged |-> FALSE]

\* newAlerts after both chains: the drowsiness alert first, then the stress alert
\* A variant of the effect whose drowsiness branches are separate ifs, not an
\* if / else-if chain: a critical level also takes the high branch
NewAlertsNoElse(d, s, now) ==
    (IF d > 70 THEN <<NewAlert("drowsiness", "critical", now)>> ELSE <<>>)
    \o (IF d > 50 THEN <<NewAlert("drowsiness", "high", now)>> ELSE <<>>)
    \o (IF stressSeverity(s) = "none" THEN <<>> ELSE <<NewAlert("stress", stressSeverity(s), now)>>)

\* newAlerts after the two if / else-if chains of the effect
NewAlerts(d, s, now) ==
    (IF drowsinessSeverity(d) = "none" THEN <<>> ELSE <<NewAlert("drowsiness", drowsinessSeverity(d), now)>>)
    \o (IF stressSeverity(s) = "none" THEN <<>> ELSE <<NewAlert("stress", stressSeverity(s), now)>>)

\* Array.prototype.slice(-n)
SliceLast(seq, n) == IF Len(seq) <= n THEN seq ELSE SubSeq(seq, Len(seq) - n + 1, Len(seq))

\* A variant of the setAlerts merge that filters nothing out of prev
MergeAlertsKeepAll(prev, newAlerts) == SliceLast(prev \o newAlerts, 10)

\* setAlerts((prev) => [...filtered, ...newAlerts].slice(-10)), filtered being prev
\* without the unacknowledged alerts whose type has a new alert
MergeAlerts(prev, newAlerts) ==
    LET dropped(alert) == \E i \in 1 .. Len(newAlerts) : newAlerts[i].type = alert.type /\ ~alert.acknowledged
        kept(alert) == ~dropped(alert)
    IN SliceLast(SelectSeq(prev, kept) \o newAlerts, 10)

\* alerts.filter((alert) => !alert.acknowledged)
activeAlerts == SelectSeq(alerts, LAMBDA alert : ~alert.acknowledged)
\* alerts.filter((alert) => alert.acknowledged)
acknowledgedAlerts == SelectSeq(alerts, LAMBDA alert : alert.acknowledged)

\* The alerts state after the effect has run for the data object (d, s, isActive)
\* at the time now
AlertsAfter(prev, d, s, isActive, now) ==
    IF ~isActive THEN prev
    ELSE IF Len(NewAlerts(d, s, now)) > 0 THEN MergeAlerts(prev, NewAlerts(d, s, now))
    ELSE prev

\* A new monitoring data object reaches the component and its effect runs
Sample(d, s, isActive) ==
    /\ clock < MaxClock
    /\ clock' = clock + 1
    /\ data' = [drowsiness |-> d, stress |-> s, isActive |-> isActive]
    /\ alerts' = AlertsAfter(alerts, d, s, isActive, clock + 1)
    /\ UNCHANGED <<ledgerVars, groupVars>>

\* The Acknowledge button of an active alert
acknowledgeAlert(alertId) ==
    /\ \E i \in 1 .. Len(activeAlerts) : activeAlerts[i].id = alertId
    /\ alerts' = [i \in 1 .. Len(alerts) |-> IF alerts[i].id = alertId THEN [alerts[i] EXCEPT !.acknowledged = TRUE] ELSE alerts[i]]
    /\ UNCHANGED <<ledgerVars, groupVars, data, clock>>

\* The Dismiss button of an active alert
dismissAlert(alertId) ==
    /\ \E i \in 1 .. Len(activeAlerts) : activeAlerts[i].id = alertId
    /\ alerts' = SelectSeq(alerts, LAMBDA alert : alert.id # alertId)
    /\ UNCHANGED <<ledgerVars, groupVars, data, clock>>

AlertIds == AlertTypes \X (1 .. MaxClock)

InitAlerts ==
    /\ deployed = TRUE
    /\ walletInit = TRUE
    /\ blockTimestamp = 0
    /\ driverLogs = [a \in Addresses |-> <<>>]
    /\ nftData = <<>>
    /\ totalAchievements = 0
    /\ authorizedLoggers = {Deployer}
    /\ driverData = [a \in Addresses |-> ZeroRewards]
    /\ metrics = NoMetrics
    /\ sessionSeq = 0
    /\ isLoading = TRUE
    /\ pc = "load"
    /\ captured = NoCapture
    /\ lastCall = NoCall
    /\ rewards = ZeroRewards
    /\ mintedSessions = {}
    /\ logCount = 0 /\ totalEarned = 0 /\ mintedTypes = {} /\ achievement = [eligible |-> FALSE]
    /\ orphanPc = "idle" /\ orphanCaptured = [kind |-> "none"]
    /\ lastTx = [fn |-> "none"] /\ addedLoggers = {}
    /\ localStorage = [k \in {<<"recent", "Routes">>, <<"active", "Route">>, <<"wellness", "History">>, <<"user", "Preferences">>, <<"route", "Tracker", "Expanded">>} |-> [kind |-> "absent"]] /\ sessionStorage = localStorage /\ lastSave = [op |-> "none"]
    /\ tipsNow = 0 /\ lastTipsUpdate = -1 /\ currentTips = <<>> /\ groqPending = 0 /\ requestTimes = <<>>
    /\ retries = 0 /\ fetchIndex = 0 /\ fetchPc = "idle" /\ fetchCount = 0 /\ responses = <<>> /\ fetchResult = [kind |-> "none"]
    /\ call = [op |-> "none"] /\ txState = "none"
    /\ history = <<>> /\ gIndex = 0 /\ gSessions = <<>> /\ currentSession = <<>>
    /\ lastTimestamp = -1 /\ gDone = FALSE
    /\ isMonitoring = FALSE /\ closedAfter = {}
    /\ data = [drowsiness |-> 0, stress |-> 0, isActive |-> FALSE]
    /\ alerts = <<>> /\ clock = 0

NextAlerts ==
    \/ \E d \in DrowsinessInputs, s \in StressInputs : Sample(d, s, TRUE)
    \/ Sample(0, 0, FALSE)
    \/ \E id \in AlertIds : acknowledgeAlert(id)
    \/ \E id \in AlertIds : dismissAlert(id)

SpecAlerts == InitAlerts /\ [][NextAlerts]_vars

\* The page shows another tab and later the alerts tab again (renderContent mounts
\* one component per tab): SafetyAlerts is unmounted, then mounted with
\* useState([]) and its effect runs for the monitoring data the page holds by then
Remount(d, s, isActive) ==
    /\ clock < MaxClock
    /\ clock' = clock + 1
    /\ data' = [drowsiness |-> d, stress |-> s, isActive |-> isActive]
    /\ alerts' = AlertsAfter(<<>>, d, s, isActive, clock + 1)
    /\ UNCHANGED <<ledgerVars, groupVars>>

NextView ==
    \/ \E d \in DrowsinessInputs, s \in StressInputs : Sample(d, s, TRUE)
    \/ Sample(0, 0, FALSE)
    \/ \E id \in AlertIds : acknowledgeAlert(id)
    \/ \E id \in AlertIds : dismissAlert(id)
    \/ \E d \in DrowsinessInputs, s \in StressInputs : Remount(d, s, TRUE)
    \/ Remount(0, 0, FALSE)

SpecView == InitAlerts /\ [][NextView]_vars

\* A long stream: at most one stress episode at its start, then drowsiness
\* episodes, long enough for the list to pass ten entries
MaxStream == 11       \* monitoring data objects of the long stream

StreamSample(d, s) ==
    /\ clock < MaxStream
    /\ clock' = clock + 1
    /\ data' = [drowsiness |-> d, stress |-> s, isActive |-> TRUE]
    /\ alerts' = AlertsAfter(alerts, d, s, TRUE, clock + 1)
    /\ UNCHANGED <<ledgerVars, groupVars>>

StreamIds == AlertTypes \X (1 .. MaxStream)

NextStream ==
    \/ clock = 0 /\ StreamSample(20, 85)
    \/ StreamSample(75, 10)
    \/ \E id \in StreamIds : acknowledgeAlert(id)
    \/ \E id \in StreamIds : dismissAlert(id)

SpecStream == InitAlerts /\ [][NextStream]_vars

-----------------------------------------------------------------------------
\* Claims about the reward ledger

\* The step in which handleRecordSession's distributeRewards call returns
DistributeReturns == pc = "reward" /\ pc' = "load"
\* The step in which handleRedeemRewards' redeemRewards call returns
RedeemReturns == pc = "redeem" /\ pc' # "redeem"

C2_Idempotent ==
    [][(DistributeReturns /\ captured.seq \in mintedSessions)
         => driverData' = driverData]_vars

-----------------------------------------------------------------------------
\* Claims about the DriverWellnessNFT contract

\* C4 (as claimed): at most one achievement token exists for a (driver, type) pair.
C4_AtMostOnce ==
    \A i \in DOMAIN nftData, j \in DOMAIN nftData :
        (/\ nftData[i].owner = nftData[j].owner
         /\ nftData[i].achievementType = nftData[j].achievementType) => i = j

\* Values a stored field could be changed to
AltNumbers == 0 .. 3 \cup {80, 95}
AltGps == {MockGps, "0,0", ""}

\* Every struct that differs from log in exactly one of the six data fields
Tampered(log) ==
    {[log EXCEPT !.timestamp = v] : v \in AltNumbers \ {log.timestamp}}
    \cup {[log EXCEPT !.drowsinessEvents = v] : v \in AltNumbers \ {log.drowsinessEvents}}
    \cup {[log EXCEPT !.stressLevel = v] : v \in AltNumbers \ {log.stressLevel}}
    \cup {[log EXCEPT !.interventions = v] : v \in AltNumbers \ {log.interventions}}
    \cup {[log EXCEPT !.routeCompliance = v] : v \in AltNumbers \ {log.routeCompliance}}
    \cup {[log EXCEPT !.gpsCoordinates = v] : v \in AltGps \ {log.gpsCoordinates}}

\* C5: verifyLogIntegrity(driver, index) is true for every entry recordWellnessLog
\* wrote, and the comparison it makes is false for the same entry with any one of
\* timestamp, drowsinessEvents, stressLevel, interventions, routeCompliance,
\* gpsCoordinates changed.
C5_Integrity ==
    \A d \in Addresses :
        \A i \in 1 .. Len(driverLogs[d]) :
            /\ verifyLogIntegrity(d, i - 1) = TRUE
            /\ \A t \in Tampered(driverLogs[d][i]) : ~HashMatches(d, t)

\* C5 witness: both drivers have entries, written in different blocks and with
\* different field values.
C5_Witness ==
    /\ Len(driverLogs[Stranger]) = 2
    /\ Len(driverLogs[Deployer]) >= 1
    /\ driverLogs[Stranger][1].timestamp # driverLogs[Stranger][2].timestamp
    /\ driverLogs[Stranger][1].gpsCoordinates # driverLogs[Deployer][1].gpsCoordinates

IsPrefix(s, t) == Len(s) <= Len(t) /\ SubSeq(t, 1, Len(s)) = s

\* C6: in every step each driver's log keeps all its entries in place; a step that
\* changes the logs appends exactly one entry to exactly one driver's log.
C6_AppendOnly ==
    [][/\ \A d \in Addresses : IsPrefix(driverLogs[d], driverLogs'[d])
       /\ driverLogs' # driverLogs
            => \E d \in Addresses :
                 /\ Len(driverLogs'[d]) = Len(driverLogs[d]) + 1
                 /\ \A e \in Addresses \ {d} : driverLogs'[e] = driverLogs[e]]_vars

\* C6 witness: a second entry was appended to a driver's log while the other driver
\* already had one, and tokens were minted in between.
C6_Witness ==
    /\ Len(driverLogs[Deployer]) = 2
    /\ Len(driverLogs[Stranger]) = 1
    /\ Len(nftData) >= 1

-----------------------------------------------------------------------------
\* Claims about the session grouping

\* The session (its position in the returned list) that holds history item i
SessionOf(i) == CHOOSE k \in 1 .. Len(gSessions) : \E j \in 1 .. Len(gSessions[k].sessionItems) : gSessions[k].sessionItems[j] = history[i]
Gap(i) == history[i + 1].timestamp - history[i].timestamp

\* C7 as stated: when groupIntoSessions has returned, two consecutive items whose
\* timestamps differ by at least five minutes (exactly five minutes included) are
\* in two distinct sessions, and two whose gap is below five minutes are in the
\* same session.
C7_Original ==
    gDone => \A i \in 1 .. Len(history) - 1 :
                /\ Gap(i) >= 300000 => SessionOf(i) # SessionOf(i + 1)
                /\ Gap(i) < 300000 => SessionOf(i) = SessionOf(i + 1)

\* C7 amended: two consecutive items whose timestamps differ by more than five
\* minutes are in two distinct sessions, and two whose gap is five minutes or less
\* (exactly five minutes included) are in the same session; every item is in
\* exactly one session.
C7_GapRule ==
    gDone => /\ \A i \in 1 .. Len(history) - 1 :
                  /\ Gap(i) > 300000 => SessionOf(i) # SessionOf(i + 1)
                  /\ Gap(i) <= 300000 => SessionOf(i) = SessionOf(i + 1)
             /\ \A i \in 1 .. Len(history) :
                  Cardinality({k \in 1 .. Len(gSessions) : \E j \in 1 .. Len(gSessions[k].sessionItems) : gSessions[k].sessionItems[j] = history[i]}) = 1

\* C7 witness: a history with a gap of exactly five minutes and a gap of six
\* minutes has been grouped into two sessions.
C7_Witness ==
    /\ gDone
    /\ Len(history) = 3
    /\ Gap(1) = 300000
    /\ Gap(2) = 360000
    /\ Len(gSessions) = 2

\* C8: when groupIntoSessions has returned, the avgDrowsiness and avgStress of
\* every session equal the arithmetic mean of the drowsiness and stress values of
\* the items folded into it (levels in hundredths: reported * 100 * count = sum).
C8_ExactMean ==
    gDone => \A k \in 1 .. Len(gSessions) :
                /\ gSessions[k].avgDrowsiness * 100 * gSessions[k].dataPoints = SumDrowsiness(gSessions[k].sessionItems)
                /\ gSessions[k].avgStress * 100 * gSessions[k].dataPoints = SumStress(gSessions[k].sessionItems)

-----------------------------------------------------------------------------
\* Claims about the alert list

\* A step in which the effect ran for a new monitoring data object
SampleStep == clock' = clock + 1
LevelOf(type, dat) == IF type = "drowsiness" THEN dat.drowsiness ELSE dat.stress
\* Positions of the alerts of a type that the effect created in this step
Emitted(type) == {i \in 1 .. Len(alerts') : alerts'[i].id = <<type, clock'>>}
\* The unacknowledged alerts of a type in a list
ActiveOfType(seq, type) == SelectSeq(seq, LAMBDA a : a.type = type /\ ~a.acknowledged)

\* The tiers with the compared values included: drowsiness 0.7 / 0.5 / 0.35,
\* stress 0.8 / 0.6 / 0.45
InclusiveTier(type, v) ==
    IF type = "drowsiness"
    THEN IF v >= 70 THEN "critical" ELSE IF v >= 50 THEN "high" ELSE IF v >= 35 THEN "medium" ELSE "none"
    ELSE IF v >= 80 THEN "critical" ELSE IF v >= 60 THEN "high" ELSE IF v >= 45 THEN "medium" ELSE "none"

\* The tiers with the compared values excluded
StrictTier(type, v) ==
    IF type = "drowsiness"
    THEN IF v > 70 THEN "critical" ELSE IF v > 50 THEN "high" ELSE IF v > 35 THEN "medium" ELSE "none"
    ELSE IF v > 80 THEN "critical" ELSE IF v > 60 THEN "high" ELSE IF v > 45 THEN "medium" ELSE "none"

\* C9 as stated: for every sample the effect emits, per type, no alert when the
\* level is below the lowest tier and otherwise exactly one alert whose severity
\* is critical / high / medium by the tiers drowsiness >= 0.7 / 0.5 / 0.35 and
\* stress >= 0.8 / 0.6 / 0.45, the boundary values included.
C9_Original ==
    [][SampleStep =>
        \A type \in AlertTypes :
            IF InclusiveTier(type, LevelOf(type, data')) = "none"
            THEN Emitted(type) = {}
            ELSE /\ Cardinality(Emitted(type)) = 1
                 /\ \A i \in Emitted(type) : alerts'[i].severity = InclusiveTier(type, LevelOf(type, data'))]_vars

\* C9 amended: for every sample of active monitoring the effect emits, per type,
\* no alert when the level is at or below the lowest compared value and
\* otherwise exactly one unacknowledged alert whose severity is critical / high /
\* medium by the tiers drowsiness > 0.7 / 0.5 / 0.35 and stress > 0.8 / 0.6 /
\* 0.45, a level equal to a compared value falling in the tier below it.
C9_StrictTiers ==
    [][SampleStep =>
        \A type \in AlertTypes :
            IF ~data'.isActive \/ StrictTier(type, LevelOf(type, data')) = "none"
            THEN Emitted(type) = {}
            ELSE /\ Cardinality(Emitted(type)) = 1
                 /\ \A i \in Emitted(type) :
                        /\ alerts'[i].severity = StrictTier(type, LevelOf(type, data'))
                        /\ alerts'[i].type = type
                        /\ alerts'[i].timestamp = clock'
                        /\ ~alerts'[i].acknowledged]_vars

\* C9 witness: after a quiet sample and the sample (0.75, 0.2), whose one critical
\* drowsiness alert was acknowledged, the sample (0.7, 0.8) at the compared values
\* has emitted a high drowsiness and a high stress alert.
C9_Witness ==
    /\ clock = 3
    /\ data = [drowsiness |-> 70, stress |-> 80, isActive |-> TRUE]
    /\ Len(alerts) = 3
    /\ alerts[1] = [NewAlert("drowsiness", "critical", 2) EXCEPT !.acknowledged = TRUE]
    /\ alerts[2] = NewAlert("drowsiness", "high", 3)
    /\ alerts[3] = NewAlert("stress", "high", 3)

\* The tier of the new sample for a type, as the effect computes it
SampleTier(type) == IF type = "drowsiness" THEN drowsinessSeverity(data'.drowsiness) ELSE stressSeverity(data'.stress)
InList(a, seq) == \E i \in 1 .. Len(seq) : seq[i] = a

Replaced(a) == ~a.acknowledged /\ Emitted(a.type) # {}
AcknowledgedOf(seq) == SelectSeq(seq, LAMBDA a : a.acknowledged)

\* C11: acknowledgeAlert(id) sets acknowledged on exactly the alert with that id
\* and keeps every alert in the list; the acknowledged alerts are never more than
\* 10; an alert that a sample step drops from the list because of the size bound
\* is acknowledged and is the oldest acknowledged alert.
C11_History ==
    [][/\ \A id \in StreamIds :
              acknowledgeAlert(id)
                  => /\ Len(alerts') = Len(alerts)
                     /\ \A i \in 1 .. Len(alerts) :
                            alerts'[i] = IF alerts[i].id = id THEN [alerts[i] EXCEPT !.acknowledged = TRUE] ELSE alerts[i]
                     /\ Cardinality({i \in 1 .. Len(alerts) : alerts[i].id = id}) = 1
       /\ Len(AcknowledgedOf(alerts')) <= 10
       /\ SampleStep
              => \A i \in 1 .. Len(alerts) :
                     (~InList(alerts[i], alerts') /\ ~Replaced(alerts[i]))
                         => /\ alerts[i].acknowledged
                            /\ \A j \in 1 .. Len(alerts) :
                                   alerts[j].acknowledged => alerts[i].timestamp <= alerts[j].timestamp]_vars

\* C12: an unacknowledged alert leaves the active alerts only in a step that is
\* the acknowledge or the dismiss of that very alert; no sample, no size bound
\* and no change of the displayed view removes or replaces it.
C12_NeverSilentlyDeleted ==
    [][\A i \in 1 .. Len(alerts) :
           (~alerts[i].acknowledged /\ ~InList(alerts[i], alerts'))
               => \/ acknowledgeAlert(alerts[i].id)
                  \/ dismissAlert(alerts[i].id)]_vars

-----------------------------------------------------------------------------
\* Claims about the safety scorer

\* clamp(x, 0, 100)
Clamp100(x) == IF x < 0 THEN 0 ELSE IF x > 100 THEN 100 ELSE x
\* The weighted sum of C13 times 10000, for levels in hundredths:
\* 0.30 * max(0, 100 - 20 d) + 0.25 * max(0, 100 - 15 s) + 0.25 * routeCompliance
\* + 0.20 * max(0, 100 - min(30, 5 * interventionCount))
WeightedSum(m) ==
    30 * (IF 10000 - 20 * m.drowsinessLevel > 0 THEN 10000 - 20 * m.drowsinessLevel ELSE 0)
    + 25 * (IF 10000 - 15 * m.stressLevel > 0 THEN 10000 - 15 * m.stressLevel ELSE 0)
    + 2500 * m.routeCompliance
    + 2000 * (100 - (IF 5 * m.interventionCount < 30 THEN 5 * m.interventionCount ELSE 30))
\* o is the integer nearest to x / 10000, halves upwards (Math.round)
IsRounded(o, x) == 20000 * o - 10000 <= 2 * x /\ 2 * x < 20000 * o + 10000

SampleItem(m) == [timestamp |-> StartTime, drowsiness |-> m.drowsinessLevel, stress |-> m.stressLevel]
\* The bundle's levels are on the 0-1 scale
UnitScale(m) == m.drowsinessLevel \in 0 .. 100 /\ m.stressLevel \in 0 .. 100

\* C14: for one and the same drowsiness, stress, intervention count and route
\* compliance the safetyScore of the session made of that sample, the overall
\* score of the wellness panel and the overallScore of calculateSafetyScore are
\* the same number.
C14_SameScore ==
    (metrics.kind = "metrics" /\ UnitScale(metrics))
        => /\ createSessionData(<<SampleItem(metrics)>>).safetyScore = metrics.safetyScore.overallScore
           /\ calculateOverallScore(metrics.drowsinessLevel, metrics.stressLevel) = metrics.safetyScore.overallScore

\* The same metrics given on the 0-100 scale
Times100(m) == [m EXCEPT !.drowsinessLevel = 100 * m.drowsinessLevel, !.stressLevel = 100 * m.stressLevel]

\* C15: a bundle with levels on the 0-1 scale and the same bundle with levels on
\* the 0-100 scale get the same overallScore and the same decision of the
\* reward threshold.
C15_ScaleIndependent ==
    (metrics.kind = "metrics" /\ UnitScale(metrics))
        => /\ calculateSafetyScore(Times100(metrics)).overallScore = metrics.safetyScore.overallScore
           /\ ScoreTooLow(calculateSafetyScore(Times100(metrics)).overallScore) = ScoreTooLow(metrics.safetyScore.overallScore)

-----------------------------------------------------------------------------
\* Claims about the achievements

\* The tier's thresholds are met by the driver's log count and total earned
TierMet(t) ==
    \/ t = 0 /\ logCount >= 10 /\ totalEarned >= 5
    \/ t = 1 /\ logCount >= 50 /\ totalEarned >= 25
    \/ t = 2 /\ logCount >= 100 /\ totalEarned >= 100
\* A step that is a call of checkAchievementEligibility
CheckStep == UNCHANGED <<logCount, totalEarned, mintedTypes>> /\ achievement' = checkAchievementEligibility(logCount, totalEarned)

\* C16: a call of checkAchievementEligibility returns one achievement at most,
\* and when the thresholds of one or more tiers are met it returns the highest
\* of the tiers that are met.
C16_HighestTier ==
    [][CheckStep
           => IF \E t \in TierTypes : TierMet(t)
              THEN /\ achievement'.eligible
                   /\ TierMet(achievement'.achievementType)
                   /\ \A t \in TierTypes : TierMet(t) => t <= achievement'.achievementType
              ELSE ~achievement'.eligible]_vars

\* C17: once mintAchievement has succeeded for a type, no call of
\* checkAchievementEligibility returns that type as eligible.
C17_NeverReReported ==
    [][CheckStep
           => ~(achievement'.eligible /\ achievement'.achievementType \in mintedTypes)]_vars

-----------------------------------------------------------------------------
\* Claims about monitoring and sessions

\* C18: when the history has been grouped, a sample after which monitoring was
\* stopped is the last sample of its session (the session's end time, sample count
\* and averages are those at the stop), and the sample stored next begins a
\* session of its own, however short the gap between the two.
C18_NoMergeAcrossClose ==
    gDone
        => \A i \in closedAfter :
               /\ \E k \in 1 .. Len(gSessions) :
                      /\ gSessions[k].endTime = history[i].timestamp
                      /\ gSessions[k].sessionItems[gSessions[k].dataPoints] = history[i]
               /\ i < Len(history)
                      => \E k \in 1 .. Len(gSessions) : gSessions[k].sessionItems[1] = history[i + 1]

-----------------------------------------------------------------------------
\* Claims about the results of the service

Mutations == {"recordWellnessLog", "distributeRewards", "redeemRewards", "mintAchievement"}
FailureReasons == {MsgNotDeployed, MsgNotInitialized, MsgScoreTooLow, MsgNotAuthorized, MsgInsufficientBalance, MsgNetwork}

\* C19: a call of recordWellnessLog, distributeRewards, redeemRewards or
\* mintAchievement never ends with an exception; it returns a result, and a result
\* that is not a success has success = false and carries the reason of the failure.
C19_TypedResults ==
    lastCall.op \in Mutations
        => /\ ~lastCall.threw
           /\ lastCall.success \in BOOLEAN
           /\ ~lastCall.success => lastCall.error \in FailureReasons
           /\ (~areContractsReady) => (~lastCall.success /\ lastCall.error = DeploymentMessage)

\* C19 witness: a transaction of the service has failed on the network and the
\* call has returned the failure
C19_Witness ==
    /\ areContractsReady
    /\ lastCall = Failure("recordWellnessLog", MsgNetwork, TRUE)

-----------------------------------------------------------------------------
\* Claims about concurrent mutations

\* Positions of a handler at which a mutation of the ledger is in progress
MutationInProgress(p) == p \in {"log", "reward", "redeem"}

\* C20: at no time are two mutations of the driver's ledger in progress: while a
\* handler is inside record-and-settle or redeem, no other handler is.
C20_SingleWriter == ~(MutationInProgress(pc) /\ MutationInProgress(orphanPc))

-----------------------------------------------------------------------------
\* Claims about the termination of the service's calls

\* C21: a call of recordWellnessLog, distributeRewards, redeemRewards or
\* mintAchievement that has been invoked returns in the end, also when the ledger
\* never answers its transaction.
C21_EventuallyReturns == (call # NoPendingCall) ~> (call = NoPendingCall)

-----------------------------------------------------------------------------
\* Claims about the order of settlement

\* The step in which handleRecordSession's recordWellnessLog call returns
RecordLogReturns == pc = "log" /\ pc' # "log"

\* C22: handleRecordSession calls distributeRewards only when the call before it
\* was its recordWellnessLog and returned success; when recordWellnessLog fails
\* the handler ends there, with no reward transaction and every account unchanged.
C22_SettleOrder ==
    [][/\ DistributeReturns => lastCall = Success("recordWellnessLog")
       /\ (RecordLogReturns /\ ~lastCall'.success)
              => /\ pc' = "idle"
                 /\ lastCall'.op = "recordWellnessLog"
                 /\ driverData' = driverData
       /\ (RecordLogReturns /\ lastCall'.success) => pc' = "reward"]_vars

\* C22 witness: after a session that earned a reward, the recordWellnessLog of
\* the next session has failed and the handler has ended with the account as it was
C22_Witness ==
    /\ pc = "idle"
    /\ lastCall = Failure("recordWellnessLog", MsgNetwork, TRUE)
    /\ driverData[DriverAddress].totalEarned > 0
    /\ Len(driverLogs[DriverAddress]) = Cardinality(mintedSessions)

-----------------------------------------------------------------------------
\* Claims about fetchWithRetry

\* The last thing a fetch request of the call received
LastResponse(rs) == rs[Len(rs)]
ClientError(r) == r.kind = "response" /\ ~r.ok /\ r.status < 500
\* A step that is one fetch request of the call
FetchStep == fetchCount' = fetchCount + 1

\* C23: when a fetch request of the call receives a response that is not ok with
\* a status below 500, the call throws an APIError with that status in the same
\* iteration, whichever iteration it is, and so issues no other request.
C23_NoRetryOnClientError ==
    [][(FetchStep /\ ClientError(LastResponse(responses')))
           => /\ fetchPc' = "thrown"
              /\ fetchResult' = APIError("HTTP", LastResponse(responses').status)]_vars

\* The call is under way
InCall == fetchPc \in {"fetch", "backoff"}

-----------------------------------------------------------------------------
\* Claims about the safety tips

\* C25: of the calls of generateSafetyTips made since the last clearTips, no two
\* that are less than 30 seconds apart have both sent a request to the Groq API,
\* also when the earlier request is still pending or has failed.
C25_OncePer30s ==
    \A a, b \in 1 .. Len(requestTimes) :
        a < b => requestTimes[b] - requestTimes[a] >= 30000

-----------------------------------------------------------------------------
\* Claims about DataManager

\* C26: when clearAllData has returned, no key that DataManager writes is left
\* in localStorage or in sessionStorage.
C26_ClearsAll ==
    lastSave.op = "clearAllData"
        => \A k \in StoreKeys : localStorage[k] = Absent /\ sessionStorage[k] = Absent

\* C30: directly after saveData(key, v, {persistent}), getData(key, {persistent})
\* returns v, whatever was saved under the key before.
C30_RoundTrip ==
    lastSave.op = "saveData"
        => getData(localStorage, sessionStorage, lastSave.key, lastSave.persistent) = lastSave.data

\* C27: in every state of the alert list, after any samples, acknowledges and
\* dismisses, at most one unacknowledged alert of type drowsiness and at most one
\* unacknowledged alert of type stress exist.
C27_OneActivePerType == \A type \in AlertTypes : Len(ActiveOfType(alerts, type)) <= 1

\* C27 witness: the first sample (0.75, 0.85) emitted a critical alert of each
\* type, the stress alert was acknowledged, and the second sample (0.7, 0.85) has
\* replaced the drowsiness alert by a high one and added a new stress alert next
\* to the acknowledged one.
C27_Witness ==
    /\ clock = 2
    /\ Len(alerts) = 3
    /\ alerts[1] = [NewAlert("stress", "critical", 1) EXCEPT !.acknowledged = TRUE]
    /\ alerts[2] = NewAlert("drowsiness", "high", 2)
    /\ alerts[3] = NewAlert("stress", "critical", 2)

\* C28: the monitoring data the page holds has isActive = true only while the
\* live monitor is running: whenever monitoring is stopped, or the VideoMonitor
\* view was left and its connection closed, the data has isActive = false.
C28_ActiveOnlyWhileMonitoring == ~isMonitoring => ~data.isActive

\* The storage the two functions write
LedgerStorage == <<driverLogs, nftData, totalAchievements>>
\* The deployer and the addresses the owner added with addAuthorizedLogger
AuthorizedCallers == {Deployer} \cup addedLoggers

\* C29: a recordWellnessLog or mintAchievement transaction succeeds only when its
\* sender is the deployer or an address the owner added with addAuthorizedLogger;
\* sent by any other address it reverts and leaves every driver's logs, the
\* minted tokens and totalAchievements unchanged.
C29_OnlyAuthorizedWrite ==
    [][lastTx' # lastTx =>
          IF lastTx'.sender \in AuthorizedCallers
          THEN ~lastTx'.reverted
          ELSE lastTx'.reverted /\ LedgerStorage' = LedgerStorage]_vars

\* C29 witness: logs and a token exist, the stranger was never added, and the
\* stranger's mintAchievement has reverted.
C29_Witness ==
    /\ lastTx = Tx("mintAchievement", Stranger, TRUE)
    /\ addedLoggers = {}
    /\ Len(driverLogs[Stranger]) = 1
    /\ Len(nftData) = 1

====
